---- MODULE Spec2Model ----
(***************************************************************************)
(* A model of cq_warehouse/fastener.py: the construction of threaded       *)
(* fasteners (Screw, Nut, Washer), the hole operations that cadquery's     *)
(* Workplane gains (fastenerHole, clearanceHole, tapHole, threadedHole)    *)
(* and the bill of materials of an Assembly (fastener_quantities).         *)
(*                                                                         *)
(* Lengths are integers in tenths of a millimetre.  A size string is a     *)
(* sequence of one-character strings.  An instance is identified by its    *)
(* index in objs: the classes define neither __eq__ nor __hash__, so       *)
(* Python compares and hashes instances by identity.                       *)
(***************************************************************************)
EXTENDS Integers, Sequences, FiniteSets, TLC

VARIABLES
    objs,       \* the instances constructed so far; the index is the identity
    ctor,       \* the last constructor call: its arguments and its outcome
    children,   \* baseAssembly.children: what Assembly.add has appended
    metadata,   \* baseAssembly.metadata: child name -> instance (map) and
                \* what else the caller keeps in the dict (other), or absent
    host,       \* the body the holes are cut into: cuts and thread inserts
    call,       \* the last hole call: its arguments and what it computed
    bom,        \* what the last fastener_quantities call returned
    hexalobular, \* the last hexalobular_recess call: its row and what it built
    order,      \* the instances in the order of their hashes, which are their
                \* addresses: the order in which a set of them is iterated
    tables,     \* the tables that the classes share: fastener_data of each
                \* class, clearance_hole_data, tap_hole_data, nominal_length_range
    min_depth   \* the last min_hole_depth call: its arguments and its outcome

vars == <<objs, ctor, children, metadata, host, call, bom, hexalobular, order,
          tables, min_depth>>

-----------------------------------------------------------------------------
(* Bounds of the model *)

MaxSizeLen == 4     \* longest size string handed to a constructor
MaxObjs == 2        \* instances alive at once in the hole specifications
MaxCalls == 2       \* hole calls per behaviour
MaxLocs == 2        \* locations on the stack of one hole call
MaxWashers == 2     \* longest washers list of one hole call
MaxA == 14          \* largest diameter A of a row of the hexalobular table

-----------------------------------------------------------------------------
(* Strings *)

Chars == {"M", "#", "-", "6", "1"}
Digits == {"6", "1"}

M6x1 == <<"M", "6", "-", "1">>
M6 == <<"M", "6">>

\* str.split("-"): the pieces between the separators, empty pieces included
RECURSIVE Split(_)
Split(s) ==
    IF \E i \in DOMAIN s : s[i] = "-"
    THEN LET i == CHOOSE j \in DOMAIN s :
                      s[j] = "-" /\ \A l \in 1..(j - 1) : s[l] # "-"
         IN <<SubSeq(s, 1, i - 1)>> \o Split(SubSeq(s, i + 1, Len(s)))
    ELSE <<s>>

DigitValue(c) == IF c = "6" THEN 6 ELSE 1

RECURSIVE Decimal(_)
Decimal(s) ==
    IF s = <<>> THEN 0
    ELSE 10 * Decimal(SubSeq(s, 1, Len(s) - 1)) + DigitValue(s[Len(s)])

\* float(text) succeeds on a numeral and raises ValueError on anything else
IsFloat(s) == Len(s) > 0 /\ \A i \in DOMAIN s : s[i] \in Digits

\* the millimetres of a numeral, in tenths
Float(s) == 10 * Decimal(s)

\* every string a constructor is given as its size: any string of the
\* alphabet but a two-part one that is neither metric nor a numbered gauge
\* with a numeral as its threads per inch (the inch fractions, "1/4-20",
\* whose conversion is cq_warehouse.thread's)
SizeStrings ==
    {s \in UNION {[1..n -> Chars] : n \in 0..MaxSizeLen} :
        LET parts == Split(s)
        IN  \/ Len(parts) # 2
            \/ s[1] = "M"
            \/ s[1] = "#" /\ IsFloat(parts[2])}

\* imperial_str_to_float of a numeral: its inches, in tenths of a millimetre
imperial_str_to_float(s) == 254 * Decimal(s)

\* the numbered gauges of the alphabet that decode_imperial_size knows
imperial_numbered_sizes ==
    (<<"#", "1">> :> 19) @@ (<<"#", "6">> :> 35)

\* decode_imperial_size(size): the diameter and the pitch, or the KeyError of
\* line 97 for a gauge that imperial_numbered_sizes lacks
decode_imperial_size(size) ==
    LET sizes == Split(size)
    IN  IF size[1] = "#" /\ sizes[1] \notin DOMAIN imperial_numbered_sizes
        THEN [err |-> "KeyError", diameter |-> 0, pitch |-> 0]
        ELSE [err |-> "none",
              diameter |-> IF size[1] = "#" THEN imperial_numbered_sizes[sizes[1]]
                           ELSE imperial_str_to_float(sizes[1]),
              pitch |-> (254 * 254) \div imperial_str_to_float(sizes[2])]

-----------------------------------------------------------------------------
(* The dimension tables: one row per size, one column per "type:dimension", *)
(* a blank cell where a type has no such size.  The rows stand for the csv  *)
(* files the classes read when they are defined.                            *)

Blank == -1

\* classes of the module, and variants that define other sets of shape
\* methods than they do: SlottedHexScrew a profile, a plan and a recess,
\* RoundHeadScrew a profile alone, PlanOnlyScrew a plan alone, StudScrew none,
\* DriveScrew a profile and the default recess over a table of its own
ScrewClasses ==
    {"CounterSunkScrew", "SocketHeadCapScrew", "SetScrew", "HexHeadScrew",
     "HexHeadWithFlangeScrew", "SlottedHexScrew", "RoundHeadScrew",
     "PlanOnlyScrew", "StudScrew", "DriveScrew"}
NutClasses == {"HexNut", "HexNutWithFlange"}
WasherClasses == {"PlainWasher"}

Classes == ScrewClasses \cup NutClasses \cup WasherClasses

\* one row of a table: the cells of the columns type:dimension
Row(type, cells) == [c \in {<<type, d>> : d \in DOMAIN cells} |-> cells[c[2]]]

\* the table of DriveScrew: one type per way to name, or not to name, a recess
DriveRows ==
    Row("slot", "dk" :> 100 @@ "k" :> 60 @@ "n" :> 16 @@ "t" :> 20)
    @@ Row("hex", "dk" :> 100 @@ "k" :> 60 @@ "s" :> 50 @@ "t" :> 30)
    @@ Row("ph2", "dk" :> 100 @@ "k" :> 60 @@ "recess" :> <<"P", "H", "2">>)
    @@ Row("ph9", "dk" :> 100 @@ "k" :> 60 @@ "recess" :> <<"P", "H", "9">>)
    @@ Row("t6", "dk" :> 100 @@ "k" :> 60 @@ "recess" :> <<"T", "6">>)
    @@ Row("t9", "dk" :> 100 @@ "k" :> 60 @@ "recess" :> <<"T", "9">>)
    @@ Row("r1", "dk" :> 100 @@ "k" :> 60 @@ "recess" :> <<"R", "1">>)
    @@ Row("r9", "dk" :> 100 @@ "k" :> 60 @@ "recess" :> <<"R", "9">>)
    @@ Row("x1", "dk" :> 100 @@ "k" :> 60 @@ "recess" :> <<"X", "1">>)
    @@ Row("lower", "dk" :> 100 @@ "k" :> 60 @@ "recess" :> <<"p", "h", "2">>)
    @@ Row("slot_ph9", "dk" :> 100 @@ "k" :> 60 @@ "n" :> 16 @@ "t" :> 20
                       @@ "recess" :> <<"P", "H", "9">>)
    @@ Row("slot_x1", "dk" :> 100 @@ "k" :> 60 @@ "n" :> 16 @@ "t" :> 20
                      @@ "recess" :> <<"X", "1">>)
    @@ Row("s_only", "dk" :> 100 @@ "k" :> 60 @@ "s" :> 50)
    @@ Row("bare", "dk" :> 100 @@ "k" :> 60)
    @@ Row("nodk", "k" :> 60 @@ "s" :> 50 @@ "t" :> 30)
    @@ Row("deep", "dk" :> 100 @@ "k" :> 20 @@ "s" :> 50 @@ "t" :> 30)
    @@ Row("slot_hex", "dk" :> 100 @@ "k" :> 60 @@ "n" :> 16 @@ "s" :> 50
                       @@ "t" :> 20)
    @@ Row("hex_t6", "dk" :> 100 @@ "k" :> 60 @@ "s" :> 50 @@ "t" :> 30
                     @@ "recess" :> <<"T", "6">>)
    @@ Row("slot_r1", "dk" :> 100 @@ "k" :> 60 @@ "n" :> 16 @@ "t" :> 20
                      @@ "recess" :> <<"r", "1">>)

Family(cls) ==
    IF cls \in ScrewClasses THEN "Screw"
    ELSE IF cls \in NutClasses THEN "Nut" ELSE "Washer"

fastener_data ==
    [cls \in Classes |->
        CASE cls = "CounterSunkScrew" ->
                M6x1 :> ( <<"iso2009", "k">> :> 33 @@ <<"iso2009", "dk">> :> 113
                       @@ <<"iso2009", "a">> :> 90
                       @@ <<"iso2009", "n">> :> 16 @@ <<"iso2009", "t">> :> 16
                       @@ <<"iso7046", "k">> :> Blank
                       @@ <<"iso7046", "dk">> :> Blank )
          [] cls = "SocketHeadCapScrew" ->
                M6x1 :> ( <<"iso4762", "k">> :> 60 @@ <<"iso4762", "dk">> :> 100
                       @@ <<"iso4762", "s">> :> 50 @@ <<"iso4762", "t">> :> 30 )
          [] cls = "SetScrew" ->
                M6x1 :> ( <<"iso4026", "s">> :> 30 @@ <<"iso4026", "t">> :> 35 )
          [] cls = "HexHeadScrew" ->
                M6x1 :> Row("iso4014", "k" :> 40 @@ "s" :> 100)
          [] cls = "HexHeadWithFlangeScrew" ->
                M6x1 :> ( Row("en1662", "k" :> 40 @@ "s" :> 80 @@ "dc" :> 142
                                        @@ "c" :> 11)
                       @@ Row("custom", "k" :> 40 @@ "s" :> 100 @@ "dc" :> 142) )
          [] cls = "SlottedHexScrew" ->
                M6x1 :> Row("custom", "dk" :> 100 @@ "k" :> 40 @@ "s" :> 100
                                      @@ "n" :> 16 @@ "t" :> 20)
          [] cls = "RoundHeadScrew" ->
                M6x1 :> Row("custom", "dk" :> 100 @@ "k" :> 40)
          [] cls = "PlanOnlyScrew" ->
                M6x1 :> Row("custom", "s" :> 100 @@ "k" :> 40)
          [] cls = "StudScrew" ->
                M6x1 :> Row("custom", "s" :> 30 @@ "t" :> 35)
          [] cls = "DriveScrew" ->
                M6x1 :> DriveRows
          [] cls = "HexNut" ->
                M6x1 :> ( <<"iso4032", "m">> :> 52 @@ <<"iso4032", "s">> :> 100 )
          [] cls = "HexNutWithFlange" ->
                M6x1 :> ( Row("din1665", "m" :> 60 @@ "s" :> 100 @@ "dc" :> 142
                                         @@ "c" :> 11)
                       @@ Row("custom", "m" :> 60 @@ "dc" :> 142 @@ "c" :> 11) )
          [] cls = "PlainWasher" ->
                M6 :> ( <<"iso7089", "d1">> :> 64 @@ <<"iso7089", "d2">> :> 120
                     @@ <<"iso7089", "h">> :> 16
                     @@ <<"iso7093", "d1">> :> 64 @@ <<"iso7093", "d2">> :> 180
                     @@ <<"iso7093", "h">> :> 18 )]

\* Close, Normal, Loose clearance drills, keyed by the size before the "-"
clearance_hole_data ==
    M6 :> ("Close" :> 64 @@ "Normal" :> 66 @@ "Loose" :> 70)

\* Soft and Hard tap drills, keyed by the whole size
tap_hole_data ==
    M6x1 :> ("Soft" :> 50 @@ "Hard" :> 52)

\* lookup_nominal_screw_lengths(): the nominal lengths of a screw type
nominal_length_range == [t \in {"iso2009", "iso4762"} |-> <<100, 200>>]

\* the tables as the classes hold them once the module is loaded
LoadedTables ==
    [fastener_data |-> fastener_data,
     clearance_hole_data |-> clearance_hole_data,
     tap_hole_data |-> tap_hole_data,
     nominal_length_range |-> nominal_length_range]

\* types(): the type names of the columns of the first row
TypesOf(data) ==
    LET first == data[CHOOSE size \in DOMAIN data : TRUE]
    IN  {c[1] : c \in DOMAIN first}

\* cls.types() of the tables as they are loaded
types(cls) == TypesOf(fastener_data[cls])

\* isolate_fastener_type(target_fastener, fastener_data): size -> the
\* dimensions of that type, blank cells dropped, sizes left empty dropped
isolate_fastener_type(target, data) ==
    LET blank(x, value) == IF x[2] = "recess" THEN value = <<>> ELSE value = Blank
        dims(size) ==
            {c[2] : c \in {x \in DOMAIN data[size] :
                              x[1] = target /\ ~blank(x, data[size][x])}}
    IN  [size \in {x \in DOMAIN data : dims(x) # {}} |->
            [d \in dims(size) |-> data[size][<<target, d>>]]]

\* the rows of the type stored back in the table of the class: the cells
\* of the other types and the blank cells dropped from fastener_data
IsolatedInPlace(tb, cls, target) ==
    [tb EXCEPT !.fastener_data[cls] =
        [size \in DOMAIN @ |->
            [c \in {x \in DOMAIN @[size] :
                        /\ x[1] = target
                        /\ IF x[2] = "recess" THEN @[size][x] # <<>>
                           ELSE @[size][x] # Blank}
                |-> @[size][c]]]]

\* lines 147-156: isolate_fastener_type fills result and dimension_dict,
\* which it makes; of fastener_data it reads the items.  What the tables are
\* after the call.
Isolated(tb, cls, target) == tb

\* evaluate_parameter_dict: a fresh dict of the row's numbers
evaluate_parameter_dict(parameters) ==
    [p \in DOMAIN parameters |-> parameters[p]]

\* Screw.length_offset, overridden by CounterSunkScrew
length_offset(cls, data) ==
    IF cls = "CounterSunkScrew" THEN data["k"] ELSE 0

-----------------------------------------------------------------------------
(* The shapes of a variant and the recess solvers.  A solid is described by  *)
(* what it is composed of; the operations of the geometry kernel that a     *)
(* call performs (revolve, extrude, cut, intersect, union, fuse) are listed *)
(* in the order the call performs them.                                     *)

\* the shape methods a class defines, which method_exists asks for
ShapeMethods(cls) ==
    CASE cls \in {"CounterSunkScrew", "SocketHeadCapScrew", "DriveScrew"} ->
            {"head_profile", "head_recess"}
      [] cls = "HexHeadScrew" -> {"head_profile", "head_plan"}
      [] cls = "HexHeadWithFlangeScrew" ->
            {"head_profile", "head_plan", "flange_profile"}
      [] cls = "SlottedHexScrew" -> {"head_profile", "head_plan", "head_recess"}
      [] cls = "RoundHeadScrew" -> {"head_profile"}
      [] cls = "PlanOnlyScrew" -> {"head_plan"}
      [] cls = "HexNut" -> {"nut_profile", "nut_plan"}
      [] cls = "HexNutWithFlange" -> {"nut_profile", "nut_plan", "flange_profile"}
      [] OTHER -> {}

method_exists(cls, method) == method \in ShapeMethods(cls)

\* the dimensions a shape method reads of screw_data or nut_data, in the
\* order it reads them
ShapeDims(cls, method) ==
    CASE method = "head_profile" ->
            IF cls = "CounterSunkScrew" THEN <<"a", "k", "dk">>
            ELSE IF cls \in {"HexHeadScrew", "HexHeadWithFlangeScrew"}
            THEN <<"k", "s">>
            ELSE <<"dk", "k">>
      [] method = "flange_profile" -> <<"dc", "c">>
      [] method = "nut_profile" -> <<"m", "s">>
      [] OTHER -> <<"s">>

\* a call of a shape method: the KeyError of the first dimension that the
\* dict lacks, raised by the dict and caught by nothing
CallShape(cls, method, data) ==
    LET dims == ShapeDims(cls, method)
        missing == {i \in DOMAIN dims : dims[i] \notin DOMAIN data}
    IN  IF missing = {} THEN [err |-> "none", key |-> "none"]
        ELSE [err |-> "KeyError",
              key |-> dims[CHOOSE i \in missing : \A j \in missing : i <= j]]

\* profile.vertices(">X").val().X of a head profile
max_head_radius(cls, data) ==
    IF cls \in {"HexHeadScrew", "HexHeadWithFlangeScrew"}
    THEN (data["s"] * 1155) \div 2000
    ELSE data["dk"] \div 2

\* profile.vertices(">Z").val().Z of a head profile: the profiles rise to k
max_head_height(cls, data) == data["k"]

\* str.upper() over the letters of the recess codes
UpperChar(c) ==
    CASE c = "p" -> "P" [] c = "h" -> "H" [] c = "t" -> "T" [] c = "r" -> "R"
      [] OTHER -> c

Upper(text) == [i \in DOMAIN text |-> UpperChar(text[i])]

\* str.startswith
StartsWith(text, prefix) ==
    Len(text) >= Len(prefix) /\ SubSeq(text, 1, Len(prefix)) = prefix

\* the widths and depths of cross_recess, the rows of PH2
cross_widths == <<"P", "H", "2">> :> 53
cross_depths == <<"P", "H", "2">> :> 33

\* the widths and depths of square_recess, the rows of R1
square_widths == <<"R", "1">> :> 29
square_depths == <<"R", "1">> :> 36

\* the diameter A of iso10664def.csv, the row of T6
hexalobular_A == <<"T", "6">> :> 17

-----------------------------------------------------------------------------
(* The plan of the hexalobular recess *)

\* line 269: hexalobular_recess computes with sqrt(3); a number
\* p + q * sqrt(3) is the pair <<p, q>>, so that sums and products are exact
Q3Add(x, y) == <<x[1] + y[1], x[2] + y[2]>>
Q3Sub(x, y) == <<x[1] - y[1], x[2] - y[2]>>
Q3Mul(x, y) == <<x[1] * y[1] + 3 * x[2] * y[2], x[1] * y[2] + x[2] * y[1]>>
Q3Scale(n, x) == <<n * x[1], n * x[2]>>
Q3Sqrt3(x) == <<3 * x[2], x[1]>>

\* the sign of p + q * sqrt(3): -1, 0 or 1
Q3Sign(x) ==
    IF x[1] = 0 /\ x[2] = 0 THEN 0
    ELSE IF x[1] >= 0 /\ x[2] >= 0 THEN 1
    ELSE IF x[1] <= 0 /\ x[2] <= 0 THEN -1
    ELSE IF x[1] > 0
    THEN (IF x[1] * x[1] > 3 * x[2] * x[2] THEN 1 ELSE -1)
    ELSE (IF 3 * x[2] * x[2] > x[1] * x[1] THEN 1 ELSE -1)

\* the numerator of Ri with the sign of 4 * A * Re turned
RiNumeratorSignSlip(A, B, Re) ==
    <<A * A + 4 * A * Re + B * B, 2 * B * Re - A * B>>

\* line 270: A^2 - sqrt(3) A B - 4 A Re + B^2 + 2 sqrt(3) B Re
RiNumerator(A, B, Re) ==
    <<A * A - 4 * A * Re + B * B, 2 * B * Re - A * B>>

\* line 271: 2 (sqrt(3) A - 2 B - 2 sqrt(3) Re + 4 Re)
RiDenominator(A, B, Re) == <<8 * Re - 4 * B, 2 * A - 4 * Re>>

\* lines 258-265: the rows A, B, Re of iso10664def.csv, in units small
\* enough for exact products: every row with the shape of a hexalobular,
\* the lobes inside A, B inside A, and an internal arc of positive radius
HexalobularRows ==
    {r \in [A : 8..MaxA, B : 5..MaxA, Re : 1..(MaxA \div 2)] :
        /\ r.B < r.A /\ 2 * r.Re < r.A
        /\ Q3Sign(RiDenominator(r.A, r.B, r.Re)) # 0
        /\ Q3Sign(RiNumerator(r.A, r.B, r.Re))
              = Q3Sign(RiDenominator(r.A, r.B, r.Re))}

NoHexalobular ==
    [called |-> FALSE, row |-> [A |-> 0, B |-> 0, Re |-> 0],
     num |-> <<0, 0>>, den |-> <<0, 0>>,
     center_external_arc |-> <<>>, center_internal_arc |-> <<>>,
     tangent_points |-> <<>>, depth10 |-> 0]

\* lines 265-302 of hexalobular_recess for a row of the table.  Ri is the
\* quotient num / den; the centres are held multiplied by 4 * den, which
\* makes their coordinates pairs of integers.  A tangent point is the point
\* at the distance radius from the centre from, towards the centre toward
\* (lines 281-286).  depth10 is ten times the depth 0.6 * A.
HexalobularGeometry(row) ==
    LET A == row.A
        B == row.B
        Re == row.Re
    IN  [called |-> TRUE, row |-> row,
         num |-> RiNumerator(A, B, Re), den |-> RiDenominator(A, B, Re),
         center_external_arc |->
            << [x |-> <<0, 0>>,
                y |-> Q3Scale(2 * (A - 2 * Re), RiDenominator(A, B, Re))],
               [x |-> Q3Sqrt3(Q3Scale(A - 2 * Re, RiDenominator(A, B, Re))),
                y |-> Q3Scale(A - 2 * Re, RiDenominator(A, B, Re))] >>,
         center_internal_arc |->
            [x |-> Q3Add(Q3Scale(B, RiDenominator(A, B, Re)),
                         Q3Scale(2, RiNumerator(A, B, Re))),
             y |-> Q3Sqrt3(Q3Add(Q3Scale(B, RiDenominator(A, B, Re)),
                                 Q3Scale(2, RiNumerator(A, B, Re))))],
         tangent_points |->
            [i \in 1..2 |-> [from |-> i, toward |-> "internal", radius |-> Re]],
         depth10 |-> 6 * A]

-----------------------------------------------------------------------------
NoPlan ==
    [err |-> "none", plan |-> "none", size |-> 0, depth |-> 0, codes |-> {}]

\* a solver that lets the KeyError of its table through
InvalidCodeKeyError(lists, table) ==
    [err |-> "KeyError", plan |-> "none", size |-> 0, depth |-> 0, codes |-> {}]

\* a solver whose table lacks the code: ValueError, with the table in the
\* message when lists is true
InvalidCode(lists, table) ==
    [err |-> "ValueError", plan |-> "none", size |-> 0, depth |-> 0,
     codes |-> IF lists THEN DOMAIN table ELSE {}]

\* cross_recess(size)
cross_recess(size) ==
    IF size \in DOMAIN cross_widths
    THEN [err |-> "none", plan |-> "cross", size |-> cross_widths[size],
          depth |-> cross_depths[size], codes |-> {}]
    ELSE InvalidCode(TRUE, cross_widths)

\* hexalobular_recess(size): the depth is 0.6 * A
hexalobular_recess(size) ==
    IF size \in DOMAIN hexalobular_A
    THEN [err |-> "none", plan |-> "hexalobular", size |-> hexalobular_A[size],
          depth |-> (6 * hexalobular_A[size]) \div 10, codes |-> {}]
    ELSE InvalidCode(FALSE, hexalobular_A)

\* square_recess(size)
square_recess(size) ==
    IF size \in DOMAIN square_widths
    THEN [err |-> "none", plan |-> "square", size |-> square_widths[size],
          depth |-> square_depths[size], codes |-> {}]
    ELSE InvalidCode(TRUE, square_widths)

\* the solver that default_head_recess picks for a code, none for a code
\* that begins with neither PH, T nor R
SolveRecess(recess) ==
    IF StartsWith(recess, <<"P", "H">>) THEN cross_recess(recess)
    ELSE IF StartsWith(recess, <<"T">>) THEN hexalobular_recess(recess)
    ELSE IF StartsWith(recess, <<"R">>) THEN square_recess(recess)
    ELSE NoPlan

Taper(plan) == IF plan = "cross" THEN 30 ELSE 0

\* the first description that is found kept, the later ones passed over
FirstFound(earlier, later) == IF earlier.plan = "none" THEN later ELSE earlier

\* lines 1107-1137: the three try blocks run one after the other and each
\* that finds its data assigns recess_plan, recess_depth and recess_taper
\* anew; a block whose data is missing, or whose code begins with none of
\* the prefixes, leaves them as they are
LastFound(earlier, later) == IF later.plan = "none" THEN earlier ELSE later

\* Screw.default_head_recess: the slot, then the hexagon, then the coded
\* recess, each tried and each KeyError passed over; the last that is found
\* is the recess.  A ValueError of a solver is not caught.
default_head_recess(data) ==
    LET slot == IF {"dk", "n", "t"} \subseteq DOMAIN data
                THEN [err |-> "none", plan |-> "slot", size |-> data["n"],
                      depth |-> data["t"], codes |-> {}]
                ELSE NoPlan
        hex == IF {"s", "t"} \subseteq DOMAIN data
               THEN [err |-> "none", plan |-> "hex", size |-> data["s"],
                     depth |-> data["t"], codes |-> {}]
               ELSE NoPlan
        solved == IF "recess" \in DOMAIN data
                  THEN SolveRecess(Upper(data["recess"]))
                  ELSE NoPlan
        found == LastFound(LastFound(slot, hex), solved)
    IN  IF solved.err = "ValueError"
        THEN [err |-> "ValueError", at |-> "recess_solver", codes |-> solved.codes,
              plan |-> "none", size |-> 0, depth |-> 0, taper |-> 0]
        ELSE IF found.plan = "none"
        THEN [err |-> "ValueError", at |-> "default_head_recess", codes |-> {},
              plan |-> "none", size |-> 0, depth |-> 0, taper |-> 0]
        ELSE [err |-> "none", at |-> "none", codes |-> {},
              plan |-> found.plan, size |-> found.size, depth |-> found.depth,
              taper |-> Taper(found.plan)]

NoRecess ==
    [plan |-> "none", size |-> 0, depth |-> 0, taper |-> 0]

\* no head: what SetScrew.make_head returns
NoHead ==
    [present |-> FALSE, footprint |-> "none", side |-> 0, recess |-> NoRecess,
     intersected |-> FALSE, flange |-> FALSE]

\* what make_head raises: the error, the place, what the message names, and
\* the kernel operations done before it
HeadFailure(err, at, names, ops) ==
    [err |-> err, at |-> at, names |-> names, ops |-> ops, head |-> NoHead]

\* the flange revolved and unioned before the body is intersected
FlangeFirst(ops, flange_ops) == flange_ops \o ops

\* lines 1093-1101, and 539-553 of make_nut: the operations of the flange
\* follow those of the body
FlangeLast(ops, flange_ops) == ops \o flange_ops

\* the footprint taken to be the variant's plan whether it has one or not
HeadFootprintPlan(has_plan) == "plan"

\* lines 1058-1069: the plan of the variant, or a square of 3 *
\* max_head_radius
HeadFootprint(has_plan) == IF has_plan THEN "plan" ELSE "square"

\* Screw.make_head, and the override of SetScrew
make_head(cls, data) ==
    LET has_profile == method_exists(cls, "head_profile")
        has_plan == method_exists(cls, "head_plan")
        has_recess == method_exists(cls, "head_recess")
        has_flange == method_exists(cls, "flange_profile")
        profile == IF has_profile THEN CallShape(cls, "head_profile", data)
                   ELSE [err |-> "none", key |-> "none"]
        plan == IF has_plan THEN CallShape(cls, "head_plan", data)
                ELSE [err |-> "none", key |-> "none"]
        flange == IF has_flange THEN CallShape(cls, "flange_profile", data)
                  ELSE [err |-> "none", key |-> "none"]
        recess == default_head_recess(data)
        ops1 == IF has_profile THEN <<"revolve_profile">> ELSE <<>>
        ops3 == IF has_recess
                THEN ops1 \o <<"extrude_recess", "extrude_plan", "cut_recess",
                               "intersect">>
                ELSE IF has_plan THEN ops1 \o <<"extrude_plan", "intersect">>
                ELSE ops1
        ops4 == IF has_flange
                THEN FlangeLast(ops3, <<"revolve_flange", "union_flange">>)
                ELSE ops3
    IN  IF cls = "SetScrew"
        THEN [err |-> "none", at |-> "none", names |-> {}, ops |-> <<>>,
              head |-> NoHead]
        ELSE IF profile.err # "none"
        THEN HeadFailure("KeyError", "head_profile", {"key"}, <<>>)
        ELSE IF plan.err # "none"
        THEN HeadFailure("KeyError", "head_plan", {"key"}, ops1)
        ELSE IF ~has_plan /\ ~has_profile
        THEN HeadFailure("UnboundLocalError", "max_head_radius", {}, <<>>)
        ELSE IF has_recess /\ recess.err # "none"
        THEN HeadFailure("ValueError", recess.at,
                         IF recess.codes # {} THEN {"codes"} ELSE {}, ops1)
        ELSE IF has_recess /\ ~has_profile
        THEN HeadFailure("UnboundLocalError", "max_head_height", {},
                         <<"extrude_recess">>)
        ELSE IF has_plan /\ ~has_profile
        THEN HeadFailure("UnboundLocalError", "max_head_height", {}, <<>>)
        ELSE IF flange.err # "none"
        THEN HeadFailure("KeyError", "flange_profile", {"key"}, ops3)
        ELSE [err |-> "none", at |-> "none", names |-> {}, ops |-> ops4,
              head |-> [present |-> TRUE,
                        footprint |-> IF has_recess \/ has_plan
                                      THEN HeadFootprint(has_plan) ELSE "none",
                        side |-> IF has_recess /\ ~has_plan
                                 THEN 3 * max_head_radius(cls, data) ELSE 0,
                        recess |-> IF has_recess
                                   THEN [plan |-> recess.plan, size |-> recess.size,
                                         depth |-> recess.depth,
                                         taper |-> recess.taper]
                                   ELSE NoRecess,
                        intersected |-> has_recess \/ has_plan,
                        flange |-> has_flange]]

\* a solid: whether there is one, and whether a thread is fused into it
NoSolid == [present |-> FALSE, thread |-> FALSE]

\* lines 1029-1030 and 556-566: the thread joins the shank or the nut when
\* simple is false
WithThread(simple) == [present |-> TRUE, thread |-> ~simple]

\* lines 1017-1034: the operations that make the shank and join it to the head
ShankOps(simple) ==
    <<"extrude_shank">> \o (IF simple THEN <<>> ELSE <<"fuse_thread">>)
    \o <<"union_shank">>

\* Nut.make_nut
make_nut(cls, data, simple) ==
    LET profile == CallShape(cls, "nut_profile", data)
        plan == CallShape(cls, "nut_plan", data)
        flange == IF method_exists(cls, "flange_profile")
                  THEN CallShape(cls, "flange_profile", data)
                  ELSE [err |-> "none", key |-> "none"]
        ops2 == <<"revolve_profile", "extrude_plan", "cut_hole", "intersect">>
        ops3 == IF method_exists(cls, "flange_profile")
                THEN FlangeLast(ops2, <<"revolve_flange", "cut_hole_flange",
                                        "union_flange">>)
                ELSE ops2
        ops4 == ops3 \o (IF simple THEN <<>> ELSE <<"union_thread">>)
    IN  IF profile.err # "none"
        THEN [err |-> "KeyError", at |-> "nut_profile", names |-> {"key"},
              ops |-> <<>>, solid |-> NoSolid]
        ELSE IF "m" \notin DOMAIN data
        THEN [err |-> "KeyError", at |-> "make_nut", names |-> {"key"},
              ops |-> <<>>, solid |-> NoSolid]
        ELSE IF plan.err # "none"
        THEN [err |-> "KeyError", at |-> "nut_plan", names |-> {"key"},
              ops |-> <<"revolve_profile">>, solid |-> NoSolid]
        ELSE IF flange.err # "none"
        THEN [err |-> "KeyError", at |-> "flange_profile", names |-> {"key"},
              ops |-> ops2, solid |-> NoSolid]
        ELSE [err |-> "none", at |-> "none", names |-> {}, ops |-> ops4,
              solid |-> WithThread(simple)]

-----------------------------------------------------------------------------
(* Constructors *)

NoInst ==
    [family |-> "None", cls |-> "None", size |-> <<>>, fastener_type |-> "None",
     hand |-> "None", simple |-> TRUE, length |-> 0, data |-> <<>>,
     thread_diameter |-> 0, thread_pitch |-> 0, head |-> NoHead,
     shank |-> NoSolid, solid |-> NoSolid,
     max_thread_length |-> 0, thread_length |-> 0, head_z |-> 0,
     shank_span |-> <<0, 0>>]

\* an exception of a constructor: no instance; names is what the message
\* names, ops the kernel operations the call did before it
FailureAfter(err, at, names, ops) ==
    [err |-> err, at |-> at, inst |-> NoInst, names |-> names, ops |-> ops]

Failure(err, at) == FailureAfter(err, at, {}, <<>>)

\* lines 965-977 of Screw.__init__ and 472-484 of Nut.__init__: the size
\* string to thread_diameter and thread_pitch
ParseSize(size) ==
    LET size_parts == Split(size)
    IN  IF Len(size_parts) # 2
        THEN [err |-> "ValueError", at |-> "size_format", diameter |-> 0, pitch |-> 0]
        ELSE IF size[1] = "M"
        THEN IF IsFloat(Tail(size_parts[1])) /\ IsFloat(size_parts[2])
             THEN [err |-> "none", at |-> "none",
                   diameter |-> Float(Tail(size_parts[1])),
                   pitch |-> Float(size_parts[2])]
             ELSE [err |-> "ValueError", at |-> "float", diameter |-> 0, pitch |-> 0]
        ELSE LET d == decode_imperial_size(size)
             IN  [err |-> d.err,
                  at |-> IF d.err = "none" THEN "none" ELSE "decode_imperial_size",
                  diameter |-> d.diameter, pitch |-> d.pitch]

\* the checks of the type, the hand and the size's row, shared by
\* Screw.__init__ (980-998) and Nut.__init__ (486-505)
CheckTypeHandSize(a) ==
    IF a.fastener_type \notin TypesOf(tables.fastener_data[a.cls])
    THEN "type"
    ELSE IF a.hand \notin {"left", "right"}
    THEN "hand"
    ELSE IF a.size \notin
            DOMAIN isolate_fastener_type(a.fastener_type, tables.fastener_data[a.cls])
    THEN "size"
    ELSE "none"

\* the length check with a strict comparison
LengthRejectedStrict(offset, length) == offset > length

\* line 1002
LengthRejected(offset, length) == offset >= length

\* the shank hung below the head by its own length
ShankSpanBelowOrigin(length, thread_length) == <<0 - thread_length, 0>>

\* lines 1024-1033: the shank is extruded from 0 to thread_length and moved
\* down by length before it joins the head; the lowest and highest Z
ShankSpan(length, thread_length) == <<0 - length, thread_length - length>>

\* Screw.__init__
ScrewInit(a) ==
    LET parsed == ParseSize(a.size)
        bad == CheckTypeHandSize(a)
        screw_data == evaluate_parameter_dict(
            isolate_fastener_type(a.fastener_type, tables.fastener_data[a.cls])[a.size])
    IN  IF parsed.err # "none" THEN Failure(parsed.err, parsed.at)
        ELSE IF bad # "none" THEN Failure("ValueError", bad)
        ELSE IF a.cls = "CounterSunkScrew" /\ "k" \notin DOMAIN screw_data
        THEN FailureAfter("KeyError", "length_offset", {"key"}, <<>>)
        ELSE IF LengthRejected(length_offset(a.cls, screw_data), a.length)
        THEN Failure("ValueError", "length")
        ELSE LET made == make_head(a.cls, screw_data)
             IN  IF made.err # "none"
                 THEN FailureAfter(made.err, made.at, made.names, made.ops)
                 ELSE [err |-> "none", at |-> "none", names |-> {},
                       ops |-> IF made.head.present
                               THEN made.ops \o ShankOps(a.simple) ELSE <<>>,
                       inst |-> [family |-> "Screw", cls |-> a.cls,
                                 size |-> a.size,
                                 fastener_type |-> a.fastener_type,
                                 hand |-> a.hand, simple |-> a.simple,
                                 length |-> a.length, data |-> screw_data,
                                 thread_diameter |-> parsed.diameter,
                                 thread_pitch |-> parsed.pitch,
                                 head |-> made.head,
                                 shank |-> IF made.head.present
                                           THEN WithThread(a.simple) ELSE NoSolid,
                                 solid |-> IF made.head.present
                                           THEN WithThread(a.simple)
                                           ELSE NoSolid,
                                 max_thread_length |->
                                     a.length - length_offset(a.cls, screw_data),
                                 thread_length |->
                                     a.length - length_offset(a.cls, screw_data),
                                 head_z |->
                                     IF made.head.present
                                     THEN 0 - length_offset(a.cls, screw_data)
                                     ELSE 0,
                                 shank_span |->
                                     IF made.head.present
                                     THEN ShankSpan(a.length,
                                              a.length
                                              - length_offset(a.cls, screw_data))
                                     ELSE <<0, 0>>]]

\* Nut.__init__
NutInit(a) ==
    LET parsed == ParseSize(a.size)
        bad == CheckTypeHandSize(a)
        nut_data == evaluate_parameter_dict(
            isolate_fastener_type(a.fastener_type, tables.fastener_data[a.cls])[a.size])
    IN  IF parsed.err # "none" THEN Failure(parsed.err, parsed.at)
        ELSE IF bad # "none" THEN Failure("ValueError", bad)
        ELSE LET made == make_nut(a.cls, nut_data, a.simple)
             IN  IF made.err # "none"
                 THEN FailureAfter(made.err, made.at, made.names, made.ops)
                 ELSE [err |-> "none", at |-> "none", names |-> {},
                       ops |-> made.ops,
                       inst |-> [family |-> "Nut", cls |-> a.cls, size |-> a.size,
                                 fastener_type |-> a.fastener_type,
                                 hand |-> a.hand, simple |-> a.simple,
                                 length |-> 0, data |-> nut_data,
                                 thread_diameter |-> parsed.diameter,
                                 thread_pitch |-> parsed.pitch,
                                 head |-> NoHead, shank |-> NoSolid,
                                 solid |-> made.solid,
                                 max_thread_length |-> 0, thread_length |-> 0,
                                 head_z |-> 0, shank_span |-> <<0, 0>>]]

\* Washer.__init__: the size has no pitch, the washer no hand and no length
WasherInit(a) ==
    LET metric == a.size[1] = "M"
        washer_data == evaluate_parameter_dict(
            isolate_fastener_type(a.fastener_type, tables.fastener_data[a.cls])[a.size])
    IN  IF a.size = <<>> THEN Failure("IndexError", "size")
        ELSE IF metric /\ ~IsFloat(Tail(a.size))
        THEN Failure("ValueError", "float")
        ELSE IF a.fastener_type \notin TypesOf(tables.fastener_data[a.cls])
        THEN Failure("ValueError", "type")
        ELSE IF a.size \notin
                DOMAIN isolate_fastener_type(a.fastener_type, tables.fastener_data[a.cls])
        THEN Failure("ValueError", "size")
        ELSE [err |-> "none", at |-> "none", names |-> {},
              ops |-> <<"revolve_profile">>,
              inst |-> [family |-> "Washer", cls |-> a.cls, size |-> a.size,
                        fastener_type |-> a.fastener_type, hand |-> "None",
                        simple |-> TRUE, length |-> 0,
                        data |-> washer_data,
                        thread_diameter |->
                            IF metric THEN Float(Tail(a.size))
                            ELSE imperial_str_to_float(a.size),
                        thread_pitch |-> 0,
                        head |-> NoHead, shank |-> NoSolid,
                        solid |-> [present |-> TRUE, thread |-> FALSE],
                        max_thread_length |-> 0, thread_length |-> 0,
                        head_z |-> 0, shank_span |-> <<0, 0>>]]

\* cls(size, length, fastener_type, hand, simple)
New(a) ==
    IF Family(a.cls) = "Screw" THEN ScrewInit(a)
    ELSE IF Family(a.cls) = "Nut" THEN NutInit(a)
    ELSE WasherInit(a)

NoCtor ==
    [called |-> FALSE,
     args |-> [cls |-> "None", size |-> <<>>, fastener_type |-> "None",
               hand |-> "None", simple |-> TRUE, length |-> 0],
     err |-> "none", at |-> "none", made |-> 0, names |-> {}, ops |-> <<>>]

\* the call went as far as isolate_fastener_type: lines 988-993 and 494-499,
\* past the checks of the size string, the type and the hand
IsolateReached(r) ==
    /\ r.err # "IndexError"
    /\ r.at \notin {"size_format", "float", "decode_imperial_size", "type", "hand"}

\* one constructor call: the instance joins objs only when __init__ returns
Construct(a) ==
    \E r \in {New(a)} :
        /\ objs' = IF r.err = "none" THEN Append(objs, r.inst) ELSE objs
        /\ ctor' = [called |-> TRUE, args |-> a, err |-> r.err, at |-> r.at,
                    made |-> IF r.err = "none" THEN Len(objs) + 1 ELSE 0,
                    names |-> r.names, ops |-> r.ops]
        /\ tables' = IF IsolateReached(r)
                     THEN Isolated(tables, a.cls, a.fastener_type) ELSE tables
        /\ IF r.err = "none"
           THEN \E k \in 0..Len(order) :
                    order' = SubSeq(order, 1, k) \o <<Len(objs) + 1>>
                             \o SubSeq(order, k + 1, Len(order))
           ELSE order' = order

-----------------------------------------------------------------------------
(* What the hole operations read of an instance *)

\* Screw.info, Nut.info, Washer.info: the text names the class, the type and
\* the size; a screw's also its length and a left hand, never simple
info(f) ==
    IF f.family = "Screw"
    THEN <<f.cls, f.fastener_type, f.size, <<"x", f.length>>,
           IF f.hand = "left" THEN " left hand thread" ELSE "">>
    ELSE <<f.cls, f.fastener_type, f.size, <<>>, "">>

\* the property clearance_hole_diameters: the row of size.split("-")[0]
clearance_hole_diameters(f) == tables.clearance_hole_data[Split(f.size)[1]]

\* the property tap_hole_diameters: the row of the size
tap_hole_diameters(f) == tables.tap_hole_data[f.size]

\* Washer.washer_thickness: the highest vertex of the revolved profile
washer_thickness(w) == w.data["h"]

\* fastener.countersink_profile(fit): None for a set screw; the default
\* profile of a screw looks the fit up and rejects an unknown one; the
\* profile of a countersunk screw and of a nut ignore the fit.  maxZ is the
\* Z of the profile's highest vertex.
countersink_profile(f, fit) ==
    CASE f.cls = "SetScrew" ->
            [err |-> "none", null |-> TRUE, maxZ |-> 0]
      [] f.cls = "SocketHeadCapScrew" ->
            IF fit \in DOMAIN clearance_hole_diameters(f)
            THEN [err |-> "none", null |-> FALSE, maxZ |-> f.data["k"]]
            ELSE [err |-> "ValueError", null |-> FALSE, maxZ |-> 0]
      [] f.cls = "CounterSunkScrew" ->
            [err |-> "none", null |-> FALSE, maxZ |-> f.data["k"]]
      [] OTHER ->
            [err |-> "none", null |-> FALSE, maxZ |-> f.data["m"]]

\* SetScrew.make_setscrew: the core and the thread, unioned whatever simple is
make_setscrew(f) == [present |-> TRUE, thread |-> TRUE]

\* the property cq_object: _cq_object, but for a set screw what
\* make_setscrew builds when the property is read
cq_object(f) == IF f.cls = "SetScrew" THEN make_setscrew(f) ELSE f.solid

\* fastener.length_offset()
LengthOffset(f) ==
    IF f.family = "Screw" THEN length_offset(f.cls, f.data) ELSE 0

-----------------------------------------------------------------------------
(* Screw.min_hole_depth *)

NoDepth ==
    [called |-> FALSE, fastener |-> 0, counter_sunk |-> FALSE, err |-> "none",
     head_offset |-> 0, result |-> 0]

\* lines 879-880: the profile of the fit "Loose" and the Z of its highest
\* vertex, asked of the profile whatever counter_sunk is; the None of a set
\* screw has no vertices
HeadOffsetOfProfile(profile) ==
    IF profile.err # "none" THEN [err |-> profile.err, z |-> 0]
    ELSE IF profile.null THEN [err |-> "AttributeError", z |-> 0]
    ELSE [err |-> "none", z |-> profile.maxZ]

\* lines 881-885
MinDepth(f, head_offset, counter_sunk) ==
    IF counter_sunk THEN f.length + head_offset - LengthOffset(f)
    ELSE f.length - LengthOffset(f)

\* objs[f].min_hole_depth(counter_sunk)
min_hole_depth(f, counter_sunk) ==
    \E h \in {HeadOffsetOfProfile(countersink_profile(objs[f], "Loose"))} :
        /\ min_depth' = [called |-> TRUE, fastener |-> f,
                         counter_sunk |-> counter_sunk, err |-> h.err,
                         head_offset |-> h.z,
                         result |-> IF h.err = "none"
                                    THEN MinDepth(objs[f], h.z, counter_sunk)
                                    ELSE 0]
        /\ UNCHANGED <<objs, ctor, children, metadata, host, call, bom,
                       hexalobular, order, tables>>

-----------------------------------------------------------------------------
(* _fastenerHole *)

\* a countersink cut whenever the profile exists, asked for or not
HasCountersinkUnasked(counterSunk, profile) == ~profile.null

\* line 1907: a countersink is cut when it is asked for and the profile exists
HasCountersink(counterSunk, profile) == counterSunk /\ ~profile.null

\* lines 1907-1916
HeadOffset(counterSunk, profile) ==
    IF HasCountersink(counterSunk, profile) THEN profile.maxZ ELSE 0

\* the key taken from fit even when a material is given
HoleKeyFitOnly(fit, material) == fit

\* line 1921
HoleKey(fit, material) == IF material = "None" THEN fit ELSE material

\* lines 1918-1927: the radius of the bore, or the error that names the keys
HoleRadius(hole_diameters, f, fit, material, hand) ==
    IF hand # "None"
    THEN [err |-> "none", radius |-> f.thread_diameter \div 2, keys |-> {},
          looked_up |-> FALSE]
    ELSE IF HoleKey(fit, material) \in DOMAIN hole_diameters
    THEN [err |-> "none",
          radius |-> hole_diameters[HoleKey(fit, material)] \div 2,
          keys |-> {}, looked_up |-> TRUE]
    ELSE [err |-> "ValueError", radius |-> 0, keys |-> DOMAIN hole_diameters,
          looked_up |-> TRUE]

\* every washer of a location put where the first one is
WasherThicknessesNone(list, n) == 0

\* the washer_thicknesses of line 1955 after n washers of the list
RECURSIVE WasherThicknesses(_, _)
WasherThicknesses(list, n) ==
    IF n = 0 THEN 0
    ELSE WasherThicknesses(list, n - 1) + washer_thickness(objs[list[n]])

\* the offset with the washers' thicknesses left out
PlacementOffsetNoWashers(head_offset, lo, washer_thicknesses) ==
    head_offset - lo

\* lines 1964-1966 and 1981: how far along bore_direction an instance is put
PlacementOffset(head_offset, lo, washer_thicknesses) ==
    head_offset - lo - washer_thicknesses

\* lines 1954-1987 for one location: the washers in list order, then the
\* fastener
PlacedAt(p, head_offset, loc) ==
    LET list == IF p.washers.given THEN p.washers.list ELSE <<>>
        lo == LengthOffset(objs[p.fastener])
    IN  [j \in 1..(Len(list) + 1) |->
            IF j <= Len(list)
            THEN [obj |-> list[j], hole |-> loc,
                  offset |-> PlacementOffset(head_offset, lo,
                                             WasherThicknesses(list, j - 1))]
            ELSE [obj |-> p.fastener, hole |-> loc,
                  offset |-> PlacementOffset(head_offset, lo,
                                             WasherThicknesses(list, Len(list)))]]

\* the records of the last location alone, as if each location began the
\* assembly's records anew
PlacedLastOnly(p, head_offset, n) ==
    IF n = 0 THEN <<>> ELSE PlacedAt(p, head_offset, n)

RECURSIVE PlacedUpTo(_, _, _)
PlacedUpTo(p, head_offset, n) ==
    IF n = 0 THEN <<>>
    ELSE PlacedUpTo(p, head_offset, n - 1) \o PlacedAt(p, head_offset, n)

\* the records added before the fit and the key are looked at
PlacedUnchecked(p, err, head_offset) ==
    IF p.asm THEN PlacedUpTo(p, head_offset, p.locs) ELSE <<>>

\* the records added whether an assembly is given or not
PlacedWithoutAssembly(p, err, head_offset) ==
    IF err = "none" THEN PlacedUpTo(p, head_offset, p.locs) ELSE <<>>

\* lines 1952-1987: what the call adds to baseAssembly; the lines are past
\* the two places an unknown fit or key is rejected
Placed(p, err, head_offset) ==
    IF err = "none" /\ p.asm THEN PlacedUpTo(p, head_offset, p.locs) ELSE <<>>

\* the mapping begun anew by every call, as line 1973 does for an assembly
\* without one
RecordedAnew(map, added) == [i \in DOMAIN added |-> added[i].obj]

\* lines 1970-1973 and 1984-1987: each instance added is entered under the
\* name of the child just made, in the mapping the assembly has or in a new
\* one when it has none (map is then empty)
Recorded(map, added) == map \o [i \in DOMAIN added |-> added[i].obj]

\* a thread insert in every threaded hole, simple or not
ThreadInsertsAlways(p) ==
    IF p.hand # "None" THEN p.locs ELSE 0

\* lines 1992-2004: one thread insert per location of a threaded hole that
\* is not simple
ThreadInserts(p) ==
    IF p.hand # "None" /\ ~p.simple THEN p.locs ELSE 0

NoThread ==
    [present |-> FALSE, major_diameter |-> 0, pitch |-> 0, length |-> 0,
     external |-> FALSE, hand |-> "None", at |-> 0]

\* lines 1993-2003: the IsoThread of the inserts, and how far along
\* bore_direction each is moved
InsertThread(p, f, head_offset) ==
    IF ThreadInserts(p) = 0 THEN NoThread
    ELSE [present |-> TRUE, major_diameter |-> f.thread_diameter,
          pitch |-> f.thread_pitch, length |-> p.depth - head_offset,
          external |-> FALSE, hand |-> p.hand, at |-> p.depth]

NoCutter ==
    [bore |-> [radius |-> 0, height |-> 0], tip |-> [radius |-> 0, at |-> 0],
     has_tip |-> FALSE, countersink |-> FALSE]

\* the bore alone, no drill tip fused to it
CutterNoTip(hole_radius, depth, countersink) ==
    [bore |-> [radius |-> hole_radius, height |-> depth],
     tip |-> [radius |-> 0, at |-> 0], has_tip |-> FALSE,
     countersink |-> countersink]

\* lines 1929-1945: fastener_hole, the cylinder of the bore, fused to the
\* countersink cutter when there is one, fused with the cone of the drill tip
\* at bore_direction * depth
Cutter(hole_radius, depth, countersink) ==
    [bore |-> [radius |-> hole_radius, height |-> depth],
     tip |-> [radius |-> hole_radius, at |-> depth], has_tip |-> TRUE,
     countersink |-> countersink]

\* the kernel operations of a hole call in their order: the revolve of the
\* countersink (1908-1913) comes before the key is looked up (1921-1927)
HoleOps(countersink, at, locs, inserts) ==
    LET csk == IF countersink THEN <<"revolve_countersink">> ELSE <<>>
    IN  IF at = "countersink_profile" THEN <<>>
        ELSE IF at = "hole_diameters" THEN csk
        ELSE csk \o (IF countersink THEN <<"fuse_countersink">> ELSE <<>>)
             \o <<"fuse_tip", "cutEach">>
             \o (IF inserts > 0 THEN <<"union_thread">> ELSE <<>>)

NoCall ==
    [called |-> FALSE, table |-> "None", fastener |-> 0, depth |-> 0,
     washers |-> [given |-> FALSE, list |-> <<>>], fit |-> "None",
     material |-> "None", counterSunk |-> FALSE, asm |-> FALSE,
     hand |-> "None", simple |-> FALSE, locs |-> 0, via |-> "None",
     thread |-> NoThread, cutter |-> NoCutter, ops |-> <<>>,
     threads_before |-> 0,
     err |-> "none", at |-> "none", keys |-> {}, profile_null |-> FALSE,
     profile_maxZ |-> 0, head_offset |-> 0, countersink_cutter |-> FALSE,
     hole_radius |-> 0, looked_up |-> FALSE, before |-> 0, cuts_before |-> 0]

NoBom == [valid |-> FALSE, bom |-> FALSE, kind |-> "none", quantities |-> <<>>]

HoleDiameters(table, f) ==
    IF table = "clearance" THEN clearance_hole_diameters(f)
    ELSE tap_hole_diameters(f)

\* the operations of the kernel that follow the placement, lines 1990-2004:
\* the cut of the host, and for the inserts the IsoThread and its unions.
\* Any of them can raise; "none" is the call in which none does.
KernelOutcomes(p) ==
    {"none", "cutEach"}
    \cup (IF ThreadInserts(p) > 0 THEN {"IsoThread", "union"} ELSE {})

\* self.fastenerHole(hole_diameters, fastener, depth, washers, fit, material,
\* counterSunk, baseAssembly, hand, simple) with p.locs locations on the
\* stack; kernel is the operation past the placement that raises
fastenerHoleKernel(p, kernel) ==
    LET f == objs[p.fastener]
        profile == countersink_profile(f, p.fit)
        head_offset == HeadOffset(p.counterSunk, profile)
        r == HoleRadius(HoleDiameters(p.table, f), f, p.fit, p.material, p.hand)
        err == IF profile.err # "none" THEN profile.err ELSE r.err
        at == IF profile.err # "none" THEN "countersink_profile"
              ELSE IF r.err # "none" THEN "hole_diameters" ELSE "none"
        \* nothing takes the records back when a later line raises
        added == Placed(p, err, head_offset)
        done == err = "none" /\ kernel = "none"
    IN  /\ children' = children \o added
        /\ metadata' =
              IF added = <<>> THEN metadata
              ELSE [present |-> TRUE,
                    map |-> Recorded(metadata.map, added),
                    other |-> metadata.other]
        /\ host' = [calls |-> host.calls + 1,
                    cuts |-> IF done THEN host.cuts + p.locs ELSE host.cuts,
                    threads |-> IF done
                                THEN host.threads + ThreadInserts(p)
                                ELSE host.threads]
        /\ call' = [called |-> TRUE, table |-> p.table, fastener |-> p.fastener,
                    depth |-> p.depth, washers |-> p.washers, fit |-> p.fit,
                    material |-> p.material, counterSunk |-> p.counterSunk,
                    asm |-> p.asm, hand |-> p.hand, simple |-> p.simple,
                    locs |-> p.locs, via |-> p.via,
                    thread |-> IF err = "none" /\ kernel \in {"none", "union"}
                               THEN InsertThread(p, f, head_offset) ELSE NoThread,
                    cutter |-> IF err = "none"
                               THEN Cutter(r.radius, p.depth,
                                           HasCountersink(p.counterSunk, profile))
                               ELSE NoCutter,
                    ops |-> HoleOps(HasCountersink(p.counterSunk, profile), at,
                                    p.locs,
                                    IF kernel \in {"cutEach", "IsoThread"}
                                    THEN 0 ELSE ThreadInserts(p)),
                    threads_before |-> host.threads,
                    err |-> IF err = "none" /\ kernel # "none"
                            THEN "KernelError" ELSE err,
                    at |-> IF err = "none" THEN kernel ELSE at,
                    keys |-> IF at = "hole_diameters" THEN r.keys
                             ELSE IF at = "countersink_profile"
                             THEN DOMAIN clearance_hole_diameters(f)
                             ELSE {},
                    profile_null |-> profile.null,
                    profile_maxZ |-> profile.maxZ,
                    head_offset |-> IF profile.err = "none" THEN head_offset ELSE 0,
                    countersink_cutter |->
                        profile.err = "none"
                        /\ HasCountersink(p.counterSunk, profile),
                    hole_radius |-> IF err = "none" THEN r.radius ELSE 0,
                    looked_up |-> profile.err = "none" /\ r.looked_up,
                    before |-> Len(children), cuts_before |-> host.cuts]
        /\ bom' = NoBom
        /\ UNCHANGED <<objs, ctor, hexalobular, order, tables, min_depth>>

\* the call in which the kernel carries out every operation it is given
fastenerHole(p) == fastenerHoleKernel(p, "none")

-----------------------------------------------------------------------------
(* The front ends of _fastenerHole *)

\* self.largestDimension() of the host, the depth of a hole given no depth
LargestDimension == 500

DepthOr(depth) == IF depth = 0 THEN LargestDimension ELSE depth

\* _clearanceHole(fastener, washers, fit, depth, counterSunk, baseAssembly)
clearanceHole(f, washers, fit, depth, counterSunk, asm, locs) ==
    fastenerHole([table |-> "clearance", fastener |-> f, washers |-> washers,
                  fit |-> fit, material |-> "None", depth |-> DepthOr(depth),
                  counterSunk |-> counterSunk, asm |-> asm, hand |-> "None",
                  simple |-> FALSE, locs |-> locs, via |-> "clearanceHole"])

\* _tapHole(fastener, washers, material, depth, counterSunk, fit, baseAssembly)
tapHole(f, washers, material, depth, counterSunk, fit, asm, locs) ==
    fastenerHole([table |-> "tap", fastener |-> f, washers |-> washers,
                  fit |-> fit, material |-> material, depth |-> DepthOr(depth),
                  counterSunk |-> counterSunk, asm |-> asm, hand |-> "None",
                  simple |-> FALSE, locs |-> locs, via |-> "tapHole"])

\* _threadedHole(fastener, depth, washers, hand, simple, counterSunk, fit,
\* baseAssembly)
threadedHole(f, depth, washers, hand, simple, counterSunk, fit, asm, locs) ==
    fastenerHole([table |-> "clearance", fastener |-> f, washers |-> washers,
                  fit |-> fit, material |-> "None", depth |-> depth,
                  counterSunk |-> counterSunk, asm |-> asm, hand |-> hand,
                  simple |-> simple, locs |-> locs, via |-> "threadedHole"])

-----------------------------------------------------------------------------
(* _fastener_quantities *)

\* a value that the caller keeps in the metadata and that is no instance of
\* Screw, Nut or Washer
Foreign == 0

\* self.metadata.values()
MetadataValues == metadata.other \o metadata.map

\* the object that a value of the metadata is: an instance, or an object of
\* no class of this module
Object(value) == IF value \in DOMAIN objs THEN objs[value] ELSE NoInst

\* isinstance(value, (Screw, Nut, Washer))
IsFastener(value) == Object(value).family \in {"Screw", "Nut", "Washer"}

\* every value counted, an instance of the three classes or not
FastenersUnfiltered == MetadataValues

\* lines 2107-2111: the values of the metadata that are fasteners
Fasteners == SelectSeq(MetadataValues, IsFastener)

\* fasteners.count(f): list.count compares with ==, which is identity here
Count(f) == Cardinality({n \in DOMAIN Fasteners : Fasteners[n] = f})

\* line 2112: set(fasteners) hashes by identity
UniqueFasteners == {Fasteners[n] : n \in DOMAIN Fasteners}

\* line 2114: one key per info; when several members of the set share an
\* info the entry written last stays, and the set's order follows the
\* instances' addresses, so any of them may be the last
BomQuantities(last) ==
    [i \in {info(Object(f)) : f \in UniqueFasteners} |-> Count(last[i])]

\* the place of an instance in the iteration of a set
Place(f) == CHOOSE k \in DOMAIN order : order[k] = f

\* the member of set(fasteners) that is iterated last among those of an info
LastOf(i) ==
    CHOOSE f \in UniqueFasteners :
        /\ info(Object(f)) = i
        /\ \A g \in UniqueFasteners :
              (info(Object(g)) = i /\ IsFastener(g)) => Place(g) <= Place(f)

\* line 2116
InstanceQuantities == [f \in UniqueFasteners |-> Count(f)]

\* assembly.fastener_quantities(bom).  cq.Assembly keeps a dict in metadata
\* and the hole methods make one for an assembly without the attribute, so
\* the None of line 2103 is met by no assembly here; an assembly without the
\* attribute fails at the read of self.metadata.
fastener_quantities(b) ==
    /\ \/ /\ ~metadata.present
          /\ bom' = [valid |-> TRUE, bom |-> b, kind |-> "AttributeError",
                     quantities |-> <<>>]
       \/ /\ metadata.present
          /\ b
          /\ bom' = [valid |-> TRUE, bom |-> TRUE, kind |-> "dict",
                     quantities |->
                        BomQuantities([i \in {info(Object(f)) : f \in UniqueFasteners}
                                          |-> LastOf(i)])]
       \/ /\ metadata.present
          /\ ~b
          /\ bom' = [valid |-> TRUE, bom |-> FALSE, kind |-> "dict",
                     quantities |-> InstanceQuantities]
    /\ UNCHANGED <<objs, ctor, children, metadata, host, call, hexalobular, order,
                   tables, min_depth>>

-----------------------------------------------------------------------------
(* The inputs *)

Screw10(cls, type, simple) ==
    [cls |-> cls, size |-> M6x1, fastener_type |-> type, hand |-> "right",
     simple |-> simple, length |-> 100]

\* what the behaviours that count fasteners construct: a screw, its twin by
\* value, a screw that differs from it in simple alone, and a washer
BomPool ==
    {Screw10("CounterSunkScrew", "iso2009", TRUE),
     Screw10("CounterSunkScrew", "iso2009", FALSE),
     [cls |-> "PlainWasher", size |-> M6, fastener_type |-> "iso7089",
      hand |-> "None", simple |-> TRUE, length |-> 0]}

\* what the behaviours that cut one hole construct
HolePool ==
    {Screw10("CounterSunkScrew", "iso2009", TRUE),
     Screw10("SocketHeadCapScrew", "iso4762", TRUE),
     Screw10("SetScrew", "iso4026", TRUE),
     [cls |-> "HexNut", size |-> M6x1, fastener_type |-> "iso4032",
      hand |-> "right", simple |-> TRUE, length |-> 0],
     [cls |-> "PlainWasher", size |-> M6, fastener_type |-> "iso7089",
      hand |-> "None", simple |-> TRUE, length |-> 0],
     [cls |-> "PlainWasher", size |-> M6, fastener_type |-> "iso7093",
      hand |-> "None", simple |-> TRUE, length |-> 0]}

\* the classes whose constructors are given every size string
CtorClasses == {"CounterSunkScrew", "SocketHeadCapScrew", "SetScrew", "HexNut"}

\* every call a constructor can be given over the alphabet
CtorArgs ==
    UNION {[cls : {c}, size : SizeStrings,
            fastener_type : types(c) \cup {"din000"},
            hand : {"right", "left", "up"}, simple : BOOLEAN,
            length : {0, 33, 100}] : c \in CtorClasses}

\* every variant and every type of its table, constructed in the size M6-1
HeadArgs ==
    UNION {[cls : {c}, size : {M6x1}, fastener_type : types(c),
            hand : {"right", "left"}, simple : BOOLEAN,
            length : {33, 100}] : c \in ScrewClasses \cup NutClasses}

FastenerIds == {i \in DOMAIN objs : objs[i].family \in {"Screw", "Nut"}}
WasherIds == {i \in DOMAIN objs : objs[i].family = "Washer"}

WasherLists ==
    {[given |-> FALSE, list |-> <<>>]}
    \cup {[given |-> TRUE, list |-> l] :
            l \in UNION {[1..n -> WasherIds] : n \in 0..MaxWashers}}

Fits == {"None", "Normal"}
Materials == {"None", "Soft"}
Hands == {"None", "right"}
Depths == {20, 200}

-----------------------------------------------------------------------------
(* The specifications *)

Init ==
    /\ objs = <<>>
    /\ ctor = NoCtor
    /\ children = <<>>
    /\ metadata \in {[present |-> FALSE, map |-> <<>>, other |-> <<>>],
                     [present |-> TRUE, map |-> <<>>, other |-> <<>>],
                     [present |-> TRUE, map |-> <<>>, other |-> <<Foreign>>]}
    /\ host = [calls |-> 0, cuts |-> 0, threads |-> 0]
    /\ call = NoCall
    /\ bom = NoBom
    /\ hexalobular = NoHexalobular
    /\ min_depth = NoDepth
    /\ order = <<>>
    /\ tables = LoadedTables

\* Spec: instances are constructed, holes are cut for them with the front
\* ends' defaults into one assembly, and the fasteners are counted
ConstructFastener ==
    /\ Len(objs) < MaxObjs
    /\ \E a \in BomPool :
        /\ Construct(a)
        /\ UNCHANGED <<children, metadata, host, call, bom, hexalobular, min_depth>>

ClearanceHole ==
    /\ host.calls < MaxCalls
    /\ \E f \in FastenerIds, w \in WasherLists, n \in 1..MaxLocs :
        /\ clearanceHole(f, w, "Normal", 0, TRUE, TRUE, n)

TapHole ==
    /\ host.calls < MaxCalls
    /\ \E f \in FastenerIds, w \in WasherLists, n \in 1..MaxLocs :
        /\ tapHole(f, w, "Soft", 0, TRUE, "Normal", TRUE, n)

ThreadedHole ==
    /\ host.calls < MaxCalls
    /\ \E f \in FastenerIds, w \in WasherLists, n \in 1..MaxLocs :
        /\ threadedHole(f, 200, w, "right", FALSE, TRUE, "Normal", TRUE, n)

FastenerQuantities == \E b \in BOOLEAN : fastener_quantities(b)

Next ==
    \/ ConstructFastener
    \/ ClearanceHole
    \/ TapHole
    \/ ThreadedHole
    \/ FastenerQuantities

Spec == Init /\ [][Next]_vars

\* SpecHole: one hole call with any arguments, for instances constructed
\* before it
ConstructForHole ==
    /\ ~call.called
    /\ \E a \in HolePool :
        /\ Len(objs) < MaxObjs
        /\ Construct(a)
        /\ UNCHANGED <<children, metadata, host, call, bom, hexalobular, min_depth>>

FastenerHole ==
    /\ ~call.called
    /\ \E f \in FastenerIds, w \in WasherLists, n \in 1..MaxLocs,
       table \in {"clearance", "tap"}, fit \in Fits, material \in Materials,
       hand \in Hands, simple \in BOOLEAN, counterSunk \in BOOLEAN,
       asm \in BOOLEAN, depth \in Depths :
        /\ fastenerHole([table |-> table, fastener |-> f, washers |-> w,
                         fit |-> fit, material |-> material, depth |-> depth,
                         counterSunk |-> counterSunk, asm |-> asm,
                         hand |-> hand, simple |-> simple, locs |-> n,
                         via |-> "fastenerHole"])

ClearanceHoleAny ==
    /\ ~call.called
    /\ \E f \in FastenerIds, w \in WasherLists, n \in 1..MaxLocs, fit \in Fits,
       counterSunk \in BOOLEAN, asm \in BOOLEAN :
        /\ clearanceHole(f, w, fit, 0, counterSunk, asm, n)

TapHoleAny ==
    /\ ~call.called
    /\ \E f \in FastenerIds, w \in WasherLists, n \in 1..MaxLocs, fit \in Fits,
       material \in Materials, counterSunk \in BOOLEAN, asm \in BOOLEAN :
        /\ tapHole(f, w, material, 0, counterSunk, fit, asm, n)

ThreadedHoleAny ==
    /\ ~call.called
    /\ \E f \in FastenerIds, w \in WasherLists, n \in 1..MaxLocs, fit \in Fits,
       hand \in Hands, simple \in BOOLEAN, counterSunk \in BOOLEAN,
       asm \in BOOLEAN, depth \in Depths :
        /\ threadedHole(f, depth, w, hand, simple, counterSunk, fit, asm, n)

NextHole ==
    \/ ConstructForHole
    \/ FastenerHole
    \/ ClearanceHoleAny
    \/ TapHoleAny
    \/ ThreadedHoleAny

\* the hole specifications start with nothing of the caller's in the metadata
InitHole == Init /\ metadata.other = <<>>

SpecHole == InitHole /\ [][NextHole]_vars

\* SpecKernel: one hole call with any arguments, in which the kernel may
\* raise at an operation past the placement
FastenerHoleKernel ==
    /\ ~call.called
    /\ \E f \in FastenerIds, w \in WasherLists, n \in 1..MaxLocs,
       table \in {"clearance", "tap"}, fit \in Fits, material \in Materials,
       hand \in Hands, simple \in BOOLEAN, counterSunk \in BOOLEAN,
       asm \in BOOLEAN, depth \in Depths :
        \E p \in {[table |-> table, fastener |-> f, washers |-> w,
                   fit |-> fit, material |-> material, depth |-> depth,
                   counterSunk |-> counterSunk, asm |-> asm,
                   hand |-> hand, simple |-> simple, locs |-> n,
                   via |-> "fastenerHole"]} :
            \E kernel \in KernelOutcomes(p) : fastenerHoleKernel(p, kernel)

NextKernel ==
    \/ ConstructForHole
    \/ FastenerHoleKernel

SpecKernel == InitHole /\ [][NextKernel]_vars

\* SpecDepth: min_hole_depth asked of the screws constructed
ScrewIds == {i \in DOMAIN objs : objs[i].family = "Screw"}

MinHoleDepth ==
    \E f \in ScrewIds, counter_sunk \in BOOLEAN : min_hole_depth(f, counter_sunk)

NextDepth ==
    \/ ConstructForHole
    \/ MinHoleDepth

SpecDepth == InitHole /\ [][NextDepth]_vars

\* SpecCtor: one constructor call with any arguments
ConstructAny ==
    /\ ~ctor.called
    /\ \E a \in CtorArgs :
        /\ Construct(a)
        /\ UNCHANGED <<children, metadata, host, call, bom, hexalobular, min_depth>>

NextCtor == ConstructAny

InitCtor == InitHole /\ metadata.present

SpecCtor == InitCtor /\ [][NextCtor]_vars

\* SpecHead: one constructor call of any variant with any row of its table
ConstructVariant ==
    /\ ~ctor.called
    /\ \E a \in HeadArgs :
        /\ Construct(a)
        /\ UNCHANGED <<children, metadata, host, call, bom, hexalobular, min_depth>>

NextHead == ConstructVariant

SpecHead == InitCtor /\ [][NextHead]_vars

\* SpecHexalobular: one call of hexalobular_recess with any row of its table
HexalobularRecess ==
    /\ ~hexalobular.called
    /\ \E row \in HexalobularRows :
        /\ hexalobular' = HexalobularGeometry(row)
        /\ UNCHANGED <<objs, ctor, children, metadata, host, call, bom, order,
                       tables, min_depth>>

NextHexalobular == HexalobularRecess

SpecHexalobular == InitHole /\ [][NextHexalobular]_vars

-----------------------------------------------------------------------------
(* The claims *)

\* the records the last hole call added, and what it was called with
NewRecords == (call.before + 1)..Len(children)
CallWashers == IF call.washers.given THEN call.washers.list ELSE <<>>
CallFastener == objs[call.fastener]
CallTable == HoleDiameters(call.table, CallFastener)
CallKey == IF call.material # "None" THEN call.material ELSE call.fit

\* C1: a hole call with a target assembly, N locations and W washers adds
\* N*(W+1) records to the metadata, N for each washer layer and N for the
\* fastener, one of each per location; fastener_quantities() then reports N
\* for fastener.info, the assembly having held no record of that info before
\* the call (as when the call is the assembly's first).
C1_HoleRecords ==
    (call.called /\ call.err = "none" /\ call.asm) =>
        LET N == call.locs
            W == Len(CallWashers)
            Layer(i) == ((i - call.before - 1) % (W + 1)) + 1
        IN  /\ metadata.present
            /\ Len(metadata.map) = call.before + N * (W + 1)
            /\ Len(children) = Len(metadata.map)
            /\ \A j \in 1..W :
                  Cardinality({i \in NewRecords :
                      Layer(i) = j /\ metadata.map[i] = CallWashers[j]}) = N
            /\ Cardinality({i \in NewRecords :
                  Layer(i) = W + 1 /\ metadata.map[i] = call.fastener}) = N
            /\ \A loc \in 1..N, j \in 1..(W + 1) :
                  \E i \in NewRecords : Layer(i) = j /\ children[i].hole = loc
            /\ ( /\ bom.valid /\ bom.bom
                 /\ \A i \in 1..call.before :
                       info(objs[metadata.map[i]]) # info(CallFastener) )
               => /\ bom.kind = "dict"
                  /\ info(CallFastener) \in DOMAIN bom.quantities
                  /\ bom.quantities[info(CallFastener)] = N

C1_Witness ==
    /\ call.called /\ call.err = "none" /\ call.asm
    /\ call.locs = 2
    /\ Len(CallWashers) = 1
    /\ call.before = 0
    /\ Len(metadata.map) = 4
    /\ bom.valid /\ bom.bom /\ bom.kind = "dict"
    /\ bom.quantities[info(CallFastener)] = 2

\* equal by value: the same class, size, type, hand and simple flag
ValueEqual(f, g) ==
    /\ f.cls = g.cls /\ f.size = g.size /\ f.fastener_type = g.fastener_type
    /\ f.hand = g.hand /\ f.simple = g.simple

\* C2: fastener_quantities counts two recorded instances on the same line
\* exactly when they are equal by value: the line of an instance counts the
\* records of every instance equal to it by value, and of no other.
C2_ValueEqualLines ==
    (bom.valid /\ bom.kind = "dict") =>
        \A f \in UniqueFasteners :
            LET line == IF bom.bom THEN info(objs[f]) ELSE f
            IN  /\ line \in DOMAIN bom.quantities
                /\ bom.quantities[line] =
                      Cardinality({n \in DOMAIN metadata.map :
                          ValueEqual(objs[metadata.map[n]], objs[f])})

\* C3: with bom=True fastener_quantities maps every info among the recorded
\* instances to the number of records whose instance has that info.
C3_BomTotals ==
    (bom.valid /\ bom.bom /\ bom.kind = "dict") =>
        /\ DOMAIN bom.quantities =
              {info(objs[metadata.map[n]]) : n \in DOMAIN metadata.map}
        /\ \A i \in DOMAIN bom.quantities :
              bom.quantities[i] =
                  Cardinality({n \in DOMAIN metadata.map :
                      info(objs[metadata.map[n]]) = i})

\* the head dimension k of a countersunk screw of the table, 0 otherwise
OffsetOf(a) ==
    IF a.cls = "CounterSunkScrew"
    THEN fastener_data[a.cls][a.size][<<a.fastener_type, "k">>]
    ELSE 0

\* a size with a row for the type, a type of the class, a hand
WellFormed(a) ==
    /\ a.size \in DOMAIN fastener_data[a.cls]
    /\ \E c \in DOMAIN fastener_data[a.cls][a.size] :
          /\ c[1] = a.fastener_type
          /\ c[2] # "recess"
          /\ fastener_data[a.cls][a.size][c] # Blank
    /\ a.hand \in {"left", "right"}

\* C4: a Screw is constructed only if length_offset() < length; for every
\* screw variant of the table and every length with length_offset() >= length
\* the constructor raises the ValueError of the length check and no instance
\* is produced.
C4_LengthOffset ==
    (ctor.called /\ Family(ctor.args.cls) = "Screw") =>
        /\ ctor.err = "none" =>
              /\ ctor.made = Len(objs)
              /\ LengthOffset(objs[ctor.made]) < objs[ctor.made].length
              /\ objs[ctor.made].length = ctor.args.length
        /\ (WellFormed(ctor.args) /\ OffsetOf(ctor.args) >= ctor.args.length) =>
              /\ ctor.err = "ValueError"
              /\ ctor.at = "length"
              /\ ctor.made = 0
              /\ objs = <<>>
        /\ ctor.args.length <= 0 => (ctor.err # "none" /\ objs = <<>>)

C4_Witness ==
    /\ ctor.called
    /\ ctor.args.cls = "CounterSunkScrew"
    /\ WellFormed(ctor.args)
    /\ ctor.args.length = 33
    /\ ctor.err = "ValueError" /\ ctor.at = "length"
    /\ objs = <<>>

\* C5: constructing a Screw or Nut raises ValueError whenever fastener_type
\* is not among the types of the class and whenever hand is neither "left"
\* nor "right", and no instance is built.
C5_TypeAndHand ==
    ( /\ ctor.called
      /\ \/ ctor.args.fastener_type \notin types(ctor.args.cls)
         \/ ctor.args.hand \notin {"left", "right"} )
    => (ctor.err = "ValueError" /\ ctor.made = 0 /\ objs = <<>>)

\* a size that does not parse into a diameter and a pitch: not exactly one
\* "-", a metric size with a part that is no numeral, a numbered gauge that
\* the gauge table lacks
Unparseable(size) ==
    LET parts == Split(size)
    IN  \/ Len(parts) # 2
        \/ size[1] = "M" /\ ~(IsFloat(Tail(parts[1])) /\ IsFloat(parts[2]))
        \/ size[1] = "#" /\ parts[1] \notin DOMAIN imperial_numbered_sizes

\* C6: constructing a Screw or Nut with a size that cannot be parsed raises
\* ValueError, the same kind of error for every such string.
C6_InvalidSize ==
    (ctor.called /\ Unparseable(ctor.args.size)) =>
        (ctor.err = "ValueError" /\ ctor.made = 0)

\* C7: the bore radius is half of fastener.thread_diameter, with no look-up
\* in the diameter table, when hand is set; otherwise it is half of
\* hole_diameters[key], key being material when given and fit otherwise, and
\* the call fails at the look-up exactly when the table lacks that key.
C7_BoreRadius ==
    (call.called /\ call.at # "countersink_profile") =>
        IF call.hand # "None"
        THEN /\ call.err = "none"
             /\ ~call.looked_up
             /\ 2 * call.hole_radius = CallFastener.thread_diameter
        ELSE /\ call.looked_up
             /\ call.err = "none" <=> CallKey \in DOMAIN CallTable
             /\ call.err = "none" => 2 * call.hole_radius = CallTable[CallKey]

C7_Witness ==
    /\ call.called /\ call.err = "none"
    /\ call.hand = "None"
    /\ call.table = "tap" /\ call.material = "Soft" /\ call.fit = "Normal"
    /\ call.hole_radius = 25

RECURSIVE TotalThickness(_)
TotalThickness(list) ==
    IF list = <<>> THEN 0
    ELSE objs[Head(list)].data["h"] + TotalThickness(Tail(list))

\* C10: at every location the fastener added to the assembly is displaced
\* along the bore axis by head_offset - fastener.length_offset() - the sum
\* of the thicknesses of all the washers, for any washers list, also an
\* empty or absent one.
C10_FastenerOffset ==
    (call.called /\ call.err = "none" /\ call.asm) =>
        \A loc \in 1..call.locs :
            /\ \E i \in NewRecords :
                  children[i].obj = call.fastener /\ children[i].hole = loc
            /\ \A i \in NewRecords :
                  (children[i].obj = call.fastener /\ children[i].hole = loc) =>
                      children[i].offset =
                          call.head_offset - LengthOffset(CallFastener)
                          - TotalThickness(CallWashers)

C10_Witness ==
    /\ call.called /\ call.err = "none" /\ call.asm
    /\ Len(CallWashers) = 2
    /\ objs[CallWashers[1]].fastener_type = "iso7093"
    /\ CallFastener.cls = "SocketHeadCapScrew"
    /\ call.counterSunk
    /\ \E i \in NewRecords :
          children[i].obj = call.fastener /\ children[i].offset = 60 - 18 - 18

\* the record that the last hole call added for layer j of location loc,
\* the layers being the washers in list order and then the fastener
RecordAt(loc, j) ==
    children[call.before + (loc - 1) * (Len(CallWashers) + 1) + j]

C12_ThreadInserts ==
    call.called =>
        /\ call.err # "none" =>
              (host.threads = call.threads_before /\ ~call.thread.present)
        /\ call.err = "none" =>
              /\ host.threads - call.threads_before =
                    (IF call.hand # "None" /\ ~call.simple THEN call.locs ELSE 0)
              /\ call.thread.present <=> (call.hand # "None" /\ ~call.simple)
              /\ call.thread.present =>
                    /\ call.thread.major_diameter = CallFastener.thread_diameter
                    /\ call.thread.pitch = CallFastener.thread_pitch
                    /\ call.thread.hand = call.hand
                    /\ ~call.thread.external
                    /\ call.thread.length = call.depth - call.head_offset
                    /\ call.thread.at = call.depth
        /\ call.via \in {"clearanceHole", "tapHole"} =>
              (host.threads = call.threads_before /\ ~call.thread.present)

C12_Witness ==
    /\ call.called /\ call.err = "none"
    /\ call.via = "threadedHole" /\ call.hand = "right" /\ ~call.simple
    /\ call.locs = 2 /\ host.threads = 2
    /\ call.head_offset = 33 /\ call.depth = 200
    /\ call.thread.length = 167 /\ call.thread.at = 200
    /\ call.thread.major_diameter = 60 /\ call.thread.pitch = 10

\* C13: the cutter of a hole call is the cylinder of the bore, of the
\* resolved radius and the depth asked for, fused with the cone of a drill
\* tip at the bottom of the bore, and with the countersink cutter when there
\* is one; one instance of it is cut from the host at every location, with
\* or without a target assembly.
C13_Cutter ==
    (call.called /\ call.err = "none") =>
        /\ call.cutter.bore = [radius |-> call.hole_radius, height |-> call.depth]
        /\ call.cutter.has_tip
        /\ call.cutter.tip = [radius |-> call.hole_radius, at |-> call.depth]
        /\ call.cutter.countersink <=> (call.counterSunk /\ ~call.profile_null)
        /\ call.hole_radius > 0
        /\ host.cuts = call.cuts_before + call.locs

C13_Witness ==
    /\ call.called /\ call.err = "none" /\ ~call.asm
    /\ call.locs = 2 /\ host.cuts = 2
    /\ children = <<>>
    /\ call.cutter.countersink /\ call.cutter.has_tip
    /\ call.cutter.bore = [radius |-> 33, height |-> 200]

\* the instance that the last constructor call made, its class's shape
\* methods and the dimensions of its row
Made == objs[ctor.made]
Has(method) == method \in ShapeMethods(ctor.args.cls)
HeadOps == {"revolve_profile", "extrude_recess", "extrude_plan", "cut_recess",
            "intersect"}
IsHeadOp(op) == op \in HeadOps
ArgsTable ==
    isolate_fastener_type(ctor.args.fastener_type, fastener_data[ctor.args.cls])
HasRow == ctor.args.size \in DOMAIN ArgsTable
ArgsData == ArgsTable[ctor.args.size]

\* C14: make_head composes the head of a variant with a head profile by the
\* shapes the variant has: with a recess, the revolved profile is
\* intersected with the prism of the footprint less the recess, the
\* footprint being the variant's plan or, without one, a square of side
\* 3 * the profile's largest radius; with a plan and no recess, the revolved
\* profile is intersected with the prism of the plan; with neither, the
\* revolved profile is the head.
C14_HeadComposition ==
    ( /\ ctor.called /\ ctor.err = "none"
      /\ Family(ctor.args.cls) = "Screw" /\ Has("head_profile") )
    => LET head == Made.head
           body == SelectSeq(ctor.ops, IsHeadOp)
       IN  /\ head.present
           /\ Has("head_recess") =>
                 /\ body = <<"revolve_profile", "extrude_recess", "extrude_plan",
                             "cut_recess", "intersect">>
                 /\ head.intersected
                 /\ head.recess.plan # "none"
                 /\ head.footprint = (IF Has("head_plan") THEN "plan" ELSE "square")
                 /\ ~Has("head_plan") => head.side = 3 * (Made.data["dk"] \div 2)
           /\ (~Has("head_recess") /\ Has("head_plan")) =>
                 /\ body = <<"revolve_profile", "extrude_plan", "intersect">>
                 /\ head.intersected
                 /\ head.recess.plan = "none"
                 /\ head.footprint = "plan"
           /\ (~Has("head_recess") /\ ~Has("head_plan")) =>
                 /\ body = <<"revolve_profile">>
                 /\ ~head.intersected
                 /\ head.recess.plan = "none"
                 /\ head.footprint = "none"

C14_Witness ==
    /\ ctor.called /\ ctor.err = "none"
    /\ ctor.args.cls = "DriveScrew" /\ ctor.args.fastener_type = "ph2"
    /\ Made.head.present /\ Made.head.intersected
    /\ Made.head.footprint = "square" /\ Made.head.side = 150
    /\ Made.head.recess = [plan |-> "cross", size |-> 53, depth |-> 33,
                           taper |-> 30]

\* C15: for a screw variant with neither a head profile nor a head plan
\* make_head returns None and does not fail, and the constructor leaves
\* head, shank and solid absent.
C15_AbsentHead ==
    ( /\ ctor.called /\ Family(ctor.args.cls) = "Screw"
      /\ ~Has("head_profile") /\ ~Has("head_plan") )
    => /\ ctor.err = "none"
       /\ ~Made.head.present /\ ~Made.shank.present /\ ~Made.solid.present

\* the places of an operation in the operations of the last constructor call
Places(op) == {i \in DOMAIN ctor.ops : ctor.ops[i] = op}

\* C16: in make_head and in make_nut the flange is revolved and unioned
\* after the body has been intersected with the footprint, and nothing is
\* intersected or cut from the footprint after it: the flange is not clipped.
C16_FlangeAfterIntersection ==
    (ctor.called /\ ctor.err = "none" /\ Family(ctor.args.cls) \in {"Screw", "Nut"})
    => /\ Has("flange_profile") =>
             /\ Cardinality(Places("revolve_flange")) = 1
             /\ Cardinality(Places("union_flange")) = 1
             /\ \A f \in Places("revolve_flange") \cup Places("union_flange") :
                   \A i \in Places("intersect") \cup Places("cut_recess")
                            \cup Places("extrude_plan") \cup Places("cut_hole") :
                       i < f
             /\ Places("intersect") # {}
       /\ ~Has("flange_profile") =>
             Places("revolve_flange") \cup Places("union_flange") = {}

C16_Witness ==
    /\ ctor.called /\ ctor.err = "none"
    /\ ctor.args.cls = "HexHeadWithFlangeScrew"
    /\ Made.head.flange
    /\ SubSeq(ctor.ops, 1, 5) =
          <<"revolve_profile", "extrude_plan", "intersect", "revolve_flange",
            "union_flange">>

\* C17: for every family, set screws too, a thread is fused into the solid
\* of a fastener exactly when simple is false; a simple fastener's solid
\* holds the plain shank or bore alone.
C17_ThreadIffNotSimple ==
    (ctor.called /\ ctor.err = "none" /\ Family(ctor.args.cls) \in {"Screw", "Nut"})
    => /\ cq_object(Made).present
       /\ cq_object(Made).thread <=> ~Made.simple

\* C18: in every constructor call and every hole call, a configuration
\* error (a bad size, type, hand, recess code, fit or material) is raised
\* before the call has done any operation of the geometry kernel.
C18_ErrorsBeforeGeometry ==
    /\ (ctor.called /\ ctor.err = "ValueError") => ctor.ops = <<>>
    /\ (call.called /\ call.err = "ValueError") => call.ops = <<>>

\* the dimensions that the shape methods of the class of the last call read
\* and its row lacks
MissingDims ==
    {d \in UNION {{ShapeDims(ctor.args.cls, m)[i] :
                      i \in DOMAIN ShapeDims(ctor.args.cls, m)} :
                  m \in ShapeMethods(ctor.args.cls) \ {"head_recess"}} :
        d \notin DOMAIN ArgsData}

\* the row holds none of the three descriptions of a recess
NoRecessData ==
    /\ ~({"dk", "n", "t"} \subseteq DOMAIN ArgsData)
    /\ ~({"s", "t"} \subseteq DOMAIN ArgsData)
    /\ "recess" \notin DOMAIN ArgsData

\* C19: when the dimensions of a fastener lack one that the variant's
\* profile, plan or recess function reads, construction fails with a
\* configuration error that names the missing key and the variant.
C19_MissingDimension ==
    ( /\ ctor.called /\ HasRow
      /\ \/ MissingDims # {}
         \/ Has("head_recess") /\ NoRecessData )
    => /\ ctor.err = "ValueError"
       /\ {"key", "variant"} \subseteq ctor.names
       /\ ctor.made = 0

\* the recess code of the row of the last call, in upper case
ArgsCode == Upper(ArgsData["recess"])

\* C20: the solvers cross_recess, square_recess and hexalobular_recess fail
\* with ValueError for a code their table lacks, the first two listing the
\* valid codes, and give the plan and the depth of the table otherwise; so a
\* screw whose recess code begins with PH, T or R and is in no table is not
\* constructed, with no fall back to a slot or a hexagon.
C20_RecessCodes ==
    ( /\ ctor.called /\ Family(ctor.args.cls) = "Screw"
      /\ HasRow /\ Has("head_recess") /\ MissingDims = {}
      /\ "recess" \in DOMAIN ArgsData )
    => LET table == IF StartsWith(ArgsCode, <<"P", "H">>) THEN cross_widths
                    ELSE IF StartsWith(ArgsCode, <<"T">>) THEN hexalobular_A
                    ELSE square_widths
           depth == IF StartsWith(ArgsCode, <<"P", "H">>)
                    THEN cross_depths[ArgsCode]
                    ELSE IF StartsWith(ArgsCode, <<"T">>)
                    THEN (6 * hexalobular_A[ArgsCode]) \div 10
                    ELSE square_depths[ArgsCode]
           coded == \/ StartsWith(ArgsCode, <<"P", "H">>)
                    \/ StartsWith(ArgsCode, <<"T">>)
                    \/ StartsWith(ArgsCode, <<"R">>)
       IN  /\ (coded /\ ArgsCode \notin DOMAIN table) =>
                 /\ ctor.err = "ValueError" /\ ctor.at = "recess_solver"
                 /\ ctor.made = 0 /\ objs = <<>>
                 /\ "codes" \in ctor.names <=> ~StartsWith(ArgsCode, <<"T">>)
           /\ (coded /\ ArgsCode \in DOMAIN table) =>
                 /\ ctor.err = "none"
                 /\ Made.head.recess.plan =
                       (IF StartsWith(ArgsCode, <<"P", "H">>) THEN "cross"
                        ELSE IF StartsWith(ArgsCode, <<"T">>) THEN "hexalobular"
                        ELSE "square")
                 /\ Made.head.recess.size = table[ArgsCode]
                 /\ Made.head.recess.depth = depth

C20_Witness ==
    /\ ctor.called
    /\ ctor.args.cls = "DriveScrew" /\ ctor.args.fastener_type = "slot_ph9"
    /\ ctor.err = "ValueError" /\ ctor.at = "recess_solver"
    /\ "codes" \in ctor.names
    /\ objs = <<>>

\* the square of the distance of two centres, each held multiplied by
\* 4 * den: the square of the distance multiplied by (4 * den)^2
Dist2(p, q) ==
    Q3Add(Q3Mul(Q3Sub(p.x, q.x), Q3Sub(p.x, q.x)),
          Q3Mul(Q3Sub(p.y, q.y), Q3Sub(p.y, q.y)))

\* 4 * den * (Re + Ri), and its square
ReachOfArcs == Q3Scale(4, Q3Add(Q3Scale(hexalobular.row.Re, hexalobular.den),
                                hexalobular.num))

\* C21: for every row of the hexalobular table, with Ri from A, B and Re by
\* the formula, each tangent point is at the distance Re from the centre of
\* its external arc and at the distance Ri from the centre of the internal
\* arc, and the depth is 0.6 * A.  The tangent point is on the ray from the
\* external centre to the internal one at the distance Re, so it is at Ri
\* from the internal centre exactly when the centres are Re + Ri apart.
C21_HexalobularTangency ==
    hexalobular.called
    => /\ \A i \in 1..2 :
            LET t == hexalobular.tangent_points[i]
                d2 == Dist2(hexalobular.center_internal_arc,
                            hexalobular.center_external_arc[i])
            IN  /\ t.from = i /\ t.toward = "internal"
                /\ t.radius = hexalobular.row.Re
                /\ d2 # <<0, 0>>
                /\ d2 = Q3Mul(ReachOfArcs, ReachOfArcs)
       /\ Q3Sign(hexalobular.num) * Q3Sign(hexalobular.den) = 1
       /\ Q3Sign(ReachOfArcs) * Q3Sign(hexalobular.den) = 1
       /\ hexalobular.depth10 = 6 * hexalobular.row.A

C21_Witness ==
    /\ hexalobular.called
    /\ hexalobular.row = [A |-> 14, B |-> 10, Re |-> 1]
    /\ hexalobular.num = <<240, -120>>
    /\ hexalobular.depth10 = 84

\* C22: every screw that is constructed with a recess has a recess less deep
\* than its head profile is high.
C22_RecessDepth ==
    ( /\ ctor.called /\ ctor.err = "none" /\ Family(ctor.args.cls) = "Screw"
      /\ Made.head.present /\ Made.head.recess.plan # "none" )
    => Made.head.recess.depth < max_head_height(Made.cls, Made.data)

\* C23: fastener_quantities only reads the assembly: a call leaves the
\* children, the metadata and the host as they are; what it returns counts
\* the Screw, Nut and Washer instances of the metadata and nothing else that
\* the metadata holds; and a call that follows a call with the same argument,
\* no hole cut in between, returns the same.
C23_BomReadsOnly ==
    [][ bom'.valid =>
          /\ children' = children /\ metadata' = metadata /\ host' = host
          /\ (bom.valid /\ bom.bom = bom'.bom) => bom' = bom
          /\ (bom'.kind = "dict" /\ bom'.bom) =>
                DOMAIN bom'.quantities =
                   {info(objs[metadata.map[n]]) : n \in DOMAIN metadata.map}
          /\ (bom'.kind = "dict" /\ ~bom'.bom) =>
                bom'.quantities =
                   [f \in {metadata.map[n] : n \in DOMAIN metadata.map} |->
                      Cardinality({n \in DOMAIN metadata.map : metadata.map[n] = f})]
      ]_vars

C23_Witness ==
    /\ bom.valid /\ bom.kind = "dict" /\ ~bom.bom
    /\ metadata.other = <<Foreign>>
    /\ Len(metadata.map) >= 2 /\ Len(children) = Len(metadata.map)
    /\ DOMAIN bom.quantities = {1, 2}

\* C24: a hole call that is given no assembly creates and changes no
\* placement record, whatever the washers and the number of locations.
C24_NoAssemblyNoRecords ==
    [][ (host'.calls # host.calls /\ ~call'.asm)
          => children' = children /\ metadata' = metadata ]_vars

C24_Witness ==
    /\ call.called /\ ~call.asm /\ call.err = "none"
    /\ call.washers.given /\ Len(call.washers.list) = 2 /\ call.locs = 2
    /\ host.cuts = 2
    /\ children = <<>> /\ metadata.map = <<>>

\* C25: after any constructions, hole calls and bills of materials, the
\* tables that the classes share (fastener_data, clearance_hole_data,
\* tap_hole_data, nominal_length_range) are as they were loaded: the
\* operations read them, and what an instance keeps is its own.
C25_TablesUnchanged ==
    /\ tables.fastener_data = fastener_data
    /\ tables.clearance_hole_data = clearance_hole_data
    /\ tables.tap_hole_data = tap_hole_data
    /\ tables.nominal_length_range = nominal_length_range
    /\ \A f \in DOMAIN objs :
          objs[f].data =
             isolate_fastener_type(objs[f].fastener_type,
                                   fastener_data[objs[f].cls])[objs[f].size]

C25_Witness ==
    /\ Len(objs) = 2 /\ objs[1].cls # objs[2].cls
    /\ host.calls = 2 /\ Len(children) >= 2
    /\ bom.valid /\ bom.kind = "dict"
    /\ tables = LoadedTables

\* C26: when an operation of the kernel raises after the placement (the cut
\* of the host, or the IsoThread of the inserts or its union, as for a depth
\* that is not above head_offset), the call fails and the assembly holds no
\* record that the call added.
C26_FailedCallAddsNothing ==
    (call.called /\ call.err = "KernelError") =>
        /\ Len(children) = call.before
        /\ Len(metadata.map) = call.before

\* C27: the records accumulate over the hole calls on one assembly: a call
\* that succeeds with N locations and W washers adds exactly N*(W+1) records
\* after those the assembly holds, each entered in the metadata, and leaves
\* every earlier record and every earlier entry as it was, whether the
\* assembly had a metadata mapping before the call or not; so after k such
\* calls the assembly holds the sum of N_i*(W_i+1) records.
C27_RecordsAccumulate ==
    [][(host'.calls # host.calls /\ call'.err = "none" /\ call'.asm) =>
          LET n == call'.locs * (Len(call'.washers.list) + 1)
          IN  /\ Len(children') = Len(children) + n
              /\ SubSeq(children', 1, Len(children)) = children
              /\ Len(metadata'.map) = Len(metadata.map) + n
              /\ SubSeq(metadata'.map, 1, Len(metadata.map)) = metadata.map
              /\ \A i \in DOMAIN children' :
                    metadata'.map[i] = children'[i].obj
              /\ metadata'.present
              /\ metadata'.other = metadata.other]_vars

C27_Witness ==
    /\ host.calls = 2 /\ call.err = "none"
    /\ call.before = 4 /\ call.locs = 1 /\ Len(call.washers.list) = 2
    /\ Len(children) = 7 /\ Len(metadata.map) = 7
    /\ children[1].obj # children[7].obj

\* C28: every screw constructed with a head has thread_length and
\* max_thread_length equal to length - length_offset(), which is above 0;
\* its head is moved down by length_offset() and its shank reaches from
\* -length to -length_offset().
C28_ShankAndHead ==
    \A i \in DOMAIN objs :
        (objs[i].family = "Screw" /\ objs[i].head.present) =>
            LET lo == IF objs[i].cls = "CounterSunkScrew"
                      THEN objs[i].data["k"]
                      ELSE 0
            IN  /\ objs[i].thread_length = objs[i].length - lo
                /\ objs[i].max_thread_length = objs[i].thread_length
                /\ objs[i].thread_length > 0
                /\ objs[i].head_z = 0 - lo
                /\ objs[i].shank_span = <<0 - objs[i].length, 0 - lo>>
                /\ objs[i].shank.present

C28_Witness ==
    \E i \in DOMAIN objs :
        /\ objs[i].cls = "CounterSunkScrew" /\ objs[i].head.present
        /\ objs[i].length = 100 /\ objs[i].thread_length = 67
        /\ objs[i].head_z = 0 - 33
        /\ objs[i].shank_span = <<0 - 100, 0 - 33>>

\* the descriptions of a recess that the row of the last call holds
HasSlot == {"dk", "n", "t"} \subseteq DOMAIN ArgsData
HasHex == {"s", "t"} \subseteq DOMAIN ArgsData
CodeBegins(prefixes) ==
    /\ "recess" \in DOMAIN ArgsData
    /\ \E n \in 1..Len(ArgsData["recess"]) :
          SubSeq(ArgsData["recess"], 1, n) \in prefixes
CodedPlan ==
    IF CodeBegins({<<"P", "H">>, <<"p", "h">>, <<"P", "h">>, <<"p", "H">>})
    THEN "cross"
    ELSE IF CodeBegins({<<"T">>, <<"t">>}) THEN "hexalobular"
    ELSE IF CodeBegins({<<"R">>, <<"r">>}) THEN "square"
    ELSE "none"

\* C29: default_head_recess prefers the recess of a code that begins with
\* PH, T or R, in either case, to the hexagon of s and t, and the hexagon to
\* the slot of dk, n and t; the taper is 30 for the cross and 0 for the
\* others; with none of the three, also for a code of another prefix in a
\* row without the dimensions of a slot or a hexagon, construction fails
\* with a ValueError.  (Of the calls whose length passes the check made
\* before the head.)
C29_RecessPrecedence ==
    ( /\ ctor.called /\ HasRow /\ MissingDims = {}
      /\ Has("head_recess") /\ Has("head_profile")
      /\ ctor.at # "length" ) =>
        IF CodedPlan # "none"
        THEN IF ctor.err = "none"
             THEN /\ Made.head.recess.plan = CodedPlan
                  /\ Made.head.recess.taper =
                        (IF CodedPlan = "cross" THEN 30 ELSE 0)
             ELSE ctor.err = "ValueError" /\ ctor.at = "recess_solver"
        ELSE IF HasHex
        THEN /\ ctor.err = "none"
             /\ Made.head.recess.plan = "hex"
             /\ Made.head.recess.size = ArgsData["s"]
             /\ Made.head.recess.depth = ArgsData["t"]
             /\ Made.head.recess.taper = 0
        ELSE IF HasSlot
        THEN /\ ctor.err = "none"
             /\ Made.head.recess.plan = "slot"
             /\ Made.head.recess.size = ArgsData["n"]
             /\ Made.head.recess.depth = ArgsData["t"]
             /\ Made.head.recess.taper = 0
        ELSE /\ ctor.err = "ValueError" /\ ctor.at = "default_head_recess"
             /\ ctor.made = 0

C29_Witness ==
    /\ ctor.called /\ ctor.err = "none" /\ ctor.args.cls = "DriveScrew"
    /\ HasSlot /\ HasHex /\ CodedPlan = "none"
    /\ Made.head.recess.plan = "hex" /\ Made.head.recess.depth = 20

\* the screw of the last min_hole_depth call
DepthScrew == objs[min_depth.fastener]

\* C30: for every screw constructed, of every variant and the set screws
\* among them, min_hole_depth(counter_sunk=False) is length -
\* length_offset(), and min_hole_depth(counter_sunk=True) is that plus the
\* height of the countersink profile, which is 0 for a variant without one.
C30_MinHoleDepth ==
    min_depth.called =>
        LET lo == IF DepthScrew.cls = "CounterSunkScrew"
                  THEN DepthScrew.data["k"] ELSE 0
            extent == IF DepthScrew.cls = "SetScrew" THEN 0
                      ELSE DepthScrew.data["k"]
        IN  /\ min_depth.err = "none"
            /\ min_depth.result =
                  (IF min_depth.counter_sunk
                   THEN DepthScrew.length - lo + extent
                   ELSE DepthScrew.length - lo)

====
